---- MODULE Spec2Model ----
(***************************************************************************)
(* A model of tools/psplib_to_proj.py: the PSPLIB parser (parse_psplib),   *)
(* the translator (convert_to_proj) and the optimal-solutions loader       *)
(* (parse_optimal_solutions).                                              *)
(*                                                                         *)
(* The parser is a state machine over the text it scans: one step per      *)
(* header scan, per line of the precedence block, per line of the          *)
(* requests/durations block and for the availability line.  The text is    *)
(* the environment's input: each step draws the next line from a bounded   *)
(* alphabet and records it, so that the reachable states are the parses of *)
(* every file over that alphabet.  A Python dict is a sequence of          *)
(* <<key, value>> pairs in insertion order with distinct keys.             *)
(***************************************************************************)
EXTENDS Integers, Sequences, FiniteSets

VARIABLES
    pc,             \* position in the pipeline
    precText,       \* lines of the precedence block read so far (token lists)
    reqText,        \* lines of the requests/durations block read so far
    capText,        \* tokens matched by the availability regex, <<>> if no match
    jobs,           \* parse_psplib local `jobs`
    num_resources,  \* parse_psplib local `num_resources`
    horizon,        \* parse_psplib local `horizon`
    precedence,     \* dict job_id -> list of successor ids
    durations,      \* dict job_id -> duration
    demands,        \* dict job_id -> dict resource index -> demand
    capacities,     \* dict resource index -> capacity
    lines,          \* the lines returned by convert_to_proj
    exc,            \* the exception that ended the run, "none" if none
    solText,        \* lines of the solutions table read so far
    solutions,      \* dict <<param, instance>> -> makespan
    argv,           \* the command line: mode, input, output, solutions_file
    solFile,        \* the file solutions_file names: whether it exists, its lines
    fs,             \* the files on disk: <<directory, name>> -> content
    dirs,           \* the directories: "absent", "dir", or "file" (a plain file)
    queue,          \* batch_convert: the sorted glob not yet iterated
    converted,      \* batch_convert local `converted`
    optimal,        \* batch_convert local `optimal`
    attempted,      \* names handed to parse_psplib, in order
    writes,         \* paths opened for writing and written in full, in order
    warnings,       \* names of the `Warning: Failed to convert` lines printed
    loads,          \* calls of parse_optimal_solutions
    status,         \* exit status of the process, <<>> while it runs
    printed,        \* the count of the final `Converted {count} instances` line
    project,        \* mpp_to_proj: the project read, its resources and tasks
    hash,           \* mpp_to_proj: Python's hash() of this process, on names
    resource_map,   \* UTF8ProjWriter.resource_map: dict UniqueID -> id
    self_lines,     \* UTF8ProjWriter.lines
    jvm,            \* convert_project: the JVM, "off", "on" or "shut"
    ret,            \* convert_project: <<>> while it runs, then its outcome
    calls,          \* convert_project: the library calls made, in order
    scheduled,      \* run_benchmark: what schedule_instance returned, <<>> before
    results,        \* run_benchmark local `results`
    report          \* the BenchmarkReport returned, <<>> before

vars == <<pc, precText, reqText, capText, jobs, num_resources, horizon,
          precedence, durations, demands, capacities, lines, exc,
          solText, solutions, argv, solFile, fs, dirs, queue, converted,
          optimal, attempted, writes, warnings, loads, status, printed,
          project, hash, resource_map, self_lines, jvm, ret, calls,
          scheduled, results, report>>

parseVars == <<precText, reqText, capText, jobs, num_resources, horizon,
               precedence, durations, demands, capacities>>

loadVars == <<solText, solutions>>

batchVars == <<argv, solFile, fs, dirs, queue, converted, optimal, attempted,
               writes, warnings, loads, status, printed>>

writerVars == <<project, hash, resource_map, self_lines>>

jvmVars == <<jvm, ret, calls>>

benchVars == <<scheduled, results, report>>

toolVars == <<writerVars, jvmVars, benchVars>>

(***************************************************************************)
(* Bounds of the model.                                                    *)
(***************************************************************************)
MaxJob == 3          \* job ids in the text are 1..MaxJob
MaxSucc == 1         \* successor tokens on a canonical precedence line
MaxPrecLines == 2    \* lines read in the precedence block
MaxReqLines == 3     \* lines read in the requests/durations block
MaxDur == 1          \* durations in the text are -1..MaxDur
MaxRes == 2          \* resource count of the header; demand and capacity tokens
MaxDemand == 2       \* demand tokens are 0..MaxDemand
MaxDemandLines == 2  \* request lines read when the demands vary
MaxCap == 8          \* the largest capacity on the availability line
MaxSolLines == 3     \* lines read from the solutions table
MaxParam == 2        \* param, instance and makespan tokens are 1..MaxParam
MaxLines == 1        \* lines read per block when every kind of line occurs
MaxFiles == 3        \* files in the input directory
MaxKeys == 2         \* keys of the maps of an Instance built directly
MaxOrder == 2        \* successor tokens on a line when their order matters
MaxOrderLines == 2   \* precedence lines read when the order of successors matters

(***************************************************************************)
(* Program constants.                                                      *)
(***************************************************************************)
DefaultJobs == 0
DefaultResources == 4
DefaultHorizon == 100
DefaultCapacity == 10

(***************************************************************************)
(* Tokens.  str.split() yields strings; what the code asks of a token is   *)
(* str.isdigit() and int().  "12" is all digits and converts; "-1" is not  *)
(* all digits but converts; "x" is neither; a superscript digit is         *)
(* isdigit() and does not convert.                                         *)
(***************************************************************************)
IntTok(n) == [digits |-> n >= 0, int |-> TRUE, val |-> n]
WordTok == [digits |-> FALSE, int |-> FALSE, val |-> 0]
SupTok == [digits |-> TRUE, int |-> FALSE, val |-> 0]

isdigit(t) == t.digits
IntRaises(t) == ~t.int
int(t) == t.val

NoMatch == <<>>

(***************************************************************************)
(* Sequences and dicts.                                                    *)
(***************************************************************************)
Min(a, b) == IF a <= b THEN a ELSE b

Range(s) == {s[i] : i \in 1..Len(s)}

\* s[a:b] for 0 <= a
PySlice(s, a, b) == SubSeq(s, a + 1, Min(b, Len(s)))

SeqsUpTo(S, n) == UNION {[1..k -> S] : k \in 0..n}

DictKeys(d) == [i \in 1..Len(d) |-> d[i][1]]

DictHas(d, k) == \E i \in 1..Len(d) : d[i][1] = k

DictGet(d, k, default) ==
    IF DictHas(d, k) THEN d[CHOOSE i \in 1..Len(d) : d[i][1] = k][2] ELSE default

DictSet(d, k, v) ==
    IF DictHas(d, k)
    THEN [i \in 1..Len(d) |-> IF d[i][1] = k THEN <<k, v>> ELSE d[i]]
    ELSE Append(d, <<k, v>>)

RECURSIVE InsertSorted(_, _)
InsertSorted(x, s) ==
    IF s = <<>> THEN <<x>>
    ELSE IF x <= Head(s) THEN <<x>> \o s
    ELSE <<Head(s)>> \o InsertSorted(x, Tail(s))

RECURSIVE sorted(_)
sorted(s) == IF s = <<>> THEN <<>> ELSE InsertSorted(Head(s), sorted(Tail(s)))

RECURSIVE InsertItem(_, _)
InsertItem(x, s) ==
    IF s = <<>> THEN <<x>>
    ELSE IF x[1] <= Head(s)[1] THEN <<x>> \o s
    ELSE <<Head(s)>> \o InsertItem(x, Tail(s))

\* sortedItems without sorted()
unsortedItems(d) == d

\* sorted(d.items()): the keys are distinct, so the order is the keys' order
RECURSIVE sortedItems(_)
sortedItems(d) ==
    IF d = <<>> THEN <<>> ELSE InsertItem(Head(d), sortedItems(Tail(d)))

(***************************************************************************)
(* Strings.  A file name is a sequence of characters; the code sorts       *)
(* names, tests them for substrings and suffixes, matches a regular        *)
(* expression against them and converts their digits.                      *)
(***************************************************************************)

\* the characters of the names, in code-point order
Alphabet ==
    <<".", "0", "1", "2", "3", "4", "5", "6", "7", "8", "9", "_",
      "a", "b", "c", "d", "e", "f", "g", "h", "i", "j", "k", "l", "m",
      "n", "o", "p", "q", "r", "s", "t", "u", "v", "w", "x", "y", "z">>

Ord(c) == CHOOSE i \in 1..Len(Alphabet) : Alphabet[i] = c

IsDigitChar(c) == Ord(c) >= Ord("0") /\ Ord(c) <= Ord("9")

\* int() of a string of ASCII digits
RECURSIVE IntOf(_)
IntOf(ds) ==
    IF ds = <<>> THEN 0
    ELSE 10 * IntOf(SubSeq(ds, 1, Len(ds) - 1)) + Ord(ds[Len(ds)]) - Ord("0")

\* a < b for str
RECURSIVE StrLess(_, _)
StrLess(a, b) ==
    IF b = <<>> THEN FALSE
    ELSE IF a = <<>> THEN TRUE
    ELSE IF Head(a) # Head(b) THEN Ord(Head(a)) < Ord(Head(b))
    ELSE StrLess(Tail(a), Tail(b))

RECURSIVE InsertName(_, _)
InsertName(x, s) ==
    IF s = <<>> THEN <<x>>
    ELSE IF ~StrLess(Head(s), x) THEN <<x>> \o s
    ELSE <<Head(s)>> \o InsertName(x, Tail(s))

\* sorted() of the paths of one directory: the order of their names
RECURSIVE sortedNames(_)
sortedNames(S) ==
    IF S = {} THEN <<>>
    ELSE LET x == CHOOSE y \in S : TRUE
         IN  InsertName(x, sortedNames(S \ {x}))

\* sub in s
Contains(s, sub) ==
    \E i \in 1..(Len(s) - Len(sub) + 1) : SubSeq(s, i, i + Len(sub) - 1) = sub

\* s.endswith(suffix)
EndsWith(s, suffix) ==
    /\ Len(s) >= Len(suffix)
    /\ SubSeq(s, Len(s) - Len(suffix) + 1, Len(s)) = suffix

\* s.replace(old, new), for a non-empty old
RECURSIVE Replace(_, _, _)
Replace(s, old, new) ==
    IF Len(s) < Len(old) THEN s
    ELSE IF SubSeq(s, 1, Len(old)) = old
         THEN new \o Replace(SubSeq(s, Len(old) + 1, Len(s)), old, new)
         ELSE <<Head(s)>> \o Replace(Tail(s), old, new)

\* Path(name).stem: the name without its last suffix
Stem(name) ==
    LET dots == {i \in 1..Len(name) : name[i] = "."}
        last == CHOOSE i \in dots : \A k \in dots : k <= i
    IN  IF dots = {} \/ last = 1 \/ last = Len(name) THEN name
        ELSE SubSeq(name, 1, last - 1)

\* the length of the longest run of digits of s that starts at position i
RECURSIVE DigitRun(_, _)
DigitRun(s, i) ==
    IF i > Len(s) \/ ~IsDigitChar(s[i]) THEN 0 ELSE 1 + DigitRun(s, i + 1)

(***************************************************************************)
(* parse_psplib, lines 40-123.                                             *)
(***************************************************************************)

\* int(m.group(1)) if m else default
HeaderValue(m, default) == IF m = NoMatch THEN default ELSE m[1]

\* Successors with the slice parts[3:2+num_successors]
SuccessorsShort(parts) ==
    LET num_successors == int(parts[3])
        sl == PySlice(parts, 3, 2 + num_successors)
    IN  IF num_successors > 0 THEN [i \in 1..Len(sl) |-> int(sl[i])] ELSE <<>>

\* the successors list of a precedence line with at least 3 tokens
Successors(parts) ==
    LET num_successors == int(parts[3])
        sl == PySlice(parts, 3, 3 + num_successors)
    IN  IF num_successors > 0 THEN [i \in 1..Len(sl) |-> int(sl[i])] ELSE <<>>

\* an int() of the precedence loop body raises ValueError
PrecRaises(parts) ==
    \/ IntRaises(parts[1])
    \/ IntRaises(parts[3])
    \/ /\ int(parts[3]) > 0
       /\ \E t \in Range(PySlice(parts, 3, 3 + int(parts[3]))) : IntRaises(t)

\* the condition under which a request line is read at all
ReqAccepts(parts) == Len(parts) >= 3 /\ isdigit(parts[1])

\* JobDemands with `>= 0` for `> 0`
JobDemandsWithZero(parts, n) ==
    LET sl == PySlice(parts, 3, 3 + n)
        all == [i \in 1..Len(sl) |-> <<i, int(sl[i])>>]
    IN  SelectSeq(all, LAMBDA e : e[2] >= 0)

\* job_demands of a request line: the positive demands, keyed by position
JobDemands(parts, n) ==
    LET sl == PySlice(parts, 3, 3 + n)
        all == [i \in 1..Len(sl) |-> <<i, int(sl[i])>>]
    IN  SelectSeq(all, LAMBDA e : e[2] > 0)

\* an int() of the request loop body raises ValueError
ReqRaises(parts, n) ==
    \/ IntRaises(parts[1])
    \/ IntRaises(parts[3])
    \/ \E t \in Range(PySlice(parts, 3, 3 + n)) : IntRaises(t)

\* the capacities dict, from the regex match m (its integers) or the default
Capacities(m, n) ==
    IF m # NoMatch
    THEN [i \in 1..Min(Len(m), n) |-> <<i, m[i]>>]
    ELSE [i \in 1..n |-> <<i, DefaultCapacity>>]

\* Path(filepath).stem of the one file the parser specifications scan
InputStem == <<"j", "3", "0", "1", "_", "1">>

\* the PSPLIBInstance returned at line 114
Instance ==
    [name |-> InputStem, jobs |-> jobs, resources |-> num_resources,
     horizon |-> horizon, precedence |-> precedence, durations |-> durations,
     demands |-> demands, capacities |-> capacities]

Raise(e) == pc' = "raised" /\ exc' = e

\* lines 48-55: the three header searches
ParseHeader(JobsM, ResM, HorM) ==
    /\ pc = "header"
    /\ \E jm \in JobsM, rm \in ResM, hm \in HorM :
          /\ jobs' = HeaderValue(jm, DefaultJobs)
          /\ num_resources' = HeaderValue(rm, DefaultResources)
          /\ horizon' = HeaderValue(hm, DefaultHorizon)
    /\ pc' = "prec"
    /\ UNCHANGED <<toolVars, precText, reqText, capText, precedence, durations, demands,
                   capacities, lines, exc, loadVars, batchVars>>

\* lines 64-70: one line of the precedence block
PrecLine(L, maxLines) ==
    /\ pc = "prec"
    /\ Len(precText) < maxLines
    /\ \E parts \in L :
          /\ precText' = Append(precText, parts)
          /\ IF Len(parts) >= 3
             THEN IF PrecRaises(parts)
                  THEN Raise("ValueError") /\ UNCHANGED precedence
                  ELSE /\ precedence' =
                            DictSet(precedence, int(parts[1]), Successors(parts))
                       /\ UNCHANGED <<pc, exc>>
             ELSE UNCHANGED <<pc, exc, precedence>>
    /\ UNCHANGED <<toolVars, reqText, capText, jobs, num_resources, horizon, durations,
                   demands, capacities, lines, loadVars, batchVars>>

\* the precedence block is exhausted (or was not found, line 63)
EndPrec ==
    /\ pc = "prec"
    /\ pc' = "req"
    /\ UNCHANGED <<toolVars, parseVars, lines, exc, loadVars, batchVars>>

\* lines 80-93: one line of the requests/durations block
ReqLine(L, maxLines) ==
    /\ pc = "req"
    /\ Len(reqText) < maxLines
    /\ \E parts \in L :
          /\ reqText' = Append(reqText, parts)
          /\ IF ReqAccepts(parts)
             THEN IF ReqRaises(parts, num_resources)
                  THEN Raise("ValueError") /\ UNCHANGED <<durations, demands>>
                  ELSE /\ durations' =
                            DictSet(durations, int(parts[1]), int(parts[3]))
                       /\ demands' =
                            DictSet(demands, int(parts[1]),
                                    JobDemands(parts, num_resources))
                       /\ UNCHANGED <<pc, exc>>
             ELSE UNCHANGED <<pc, exc, durations, demands>>
    /\ UNCHANGED <<toolVars, precText, capText, jobs, num_resources, horizon, precedence,
                   capacities, lines, loadVars, batchVars>>

\* the requests/durations block is exhausted (or was not found, line 79)
EndReq ==
    /\ pc = "req"
    /\ pc' = "caps"
    /\ UNCHANGED <<toolVars, parseVars, lines, exc, loadVars, batchVars>>

\* lines 100-123: the availability line, then the Instance is returned
ParseCaps(M) ==
    /\ pc = "caps"
    /\ \E m \in M :
          /\ capText' = m
          /\ capacities' = Capacities(m, num_resources)
    /\ pc' = "parsed"
    /\ UNCHANGED <<toolVars, precText, reqText, jobs, num_resources, horizon, precedence,
                   durations, demands, lines, exc, loadVars, batchVars>>

(***************************************************************************)
(* parse_psplib as a function of a whole file, for the callers that parse  *)
(* many files: the text is [header, prec, req, caps], the three header     *)
(* matches, the lines of the two blocks and the availability match.        *)
(***************************************************************************)

\* lines 64-70 over the whole precedence block
RECURSIVE PrecDict(_)
PrecDict(ls) ==
    IF ls = <<>> THEN <<>>
    ELSE LET d == PrecDict(SubSeq(ls, 1, Len(ls) - 1))
             parts == ls[Len(ls)]
         IN  IF Len(parts) >= 3
             THEN DictSet(d, int(parts[1]), Successors(parts))
             ELSE d

\* lines 80-93 over the whole requests/durations block: durations
RECURSIVE ReqDurations(_)
ReqDurations(ls) ==
    IF ls = <<>> THEN <<>>
    ELSE LET d == ReqDurations(SubSeq(ls, 1, Len(ls) - 1))
             parts == ls[Len(ls)]
         IN  IF ReqAccepts(parts)
             THEN DictSet(d, int(parts[1]), int(parts[3]))
             ELSE d

\* lines 80-93 over the whole requests/durations block: demands
RECURSIVE ReqDemands(_, _)
ReqDemands(ls, n) ==
    IF ls = <<>> THEN <<>>
    ELSE LET d == ReqDemands(SubSeq(ls, 1, Len(ls) - 1), n)
             parts == ls[Len(ls)]
         IN  IF ReqAccepts(parts)
             THEN DictSet(d, int(parts[1]), JobDemands(parts, n))
             ELSE d

\* ParseRaises for a parser that skips the lines it cannot convert
ParseNeverRaises(text) == FALSE

\* some int() of the parse raises ValueError
ParseRaises(text) ==
    \/ \E i \in 1..Len(text.prec) :
          Len(text.prec[i]) >= 3 /\ PrecRaises(text.prec[i])
    \/ \E i \in 1..Len(text.req) :
          /\ ReqAccepts(text.req[i])
          /\ ReqRaises(text.req[i], HeaderValue(text.header[2], DefaultResources))

\* lines 40-123: the PSPLIBInstance of a readable file that does not raise
parse_psplib(stem, text) ==
    LET n == HeaderValue(text.header[2], DefaultResources)
    IN  [name |-> stem,
         jobs |-> HeaderValue(text.header[1], DefaultJobs),
         resources |-> n,
         horizon |-> HeaderValue(text.header[3], DefaultHorizon),
         precedence |-> PrecDict(text.prec),
         durations |-> ReqDurations(text.req),
         demands |-> ReqDemands(text.req, n),
         capacities |-> Capacities(text.caps, n)]

(***************************************************************************)
(* convert_to_proj, lines 126-200.  The text is a sequence of lines; a     *)
(* line is its kind (the literal part of the f-string) with the integer    *)
(* and the list it interpolates.                                           *)
(***************************************************************************)
Line(kind, id, items) == [kind |-> kind, id |-> id, items |-> items]

\* Optional[int]: None is <<>>, n is <<n>>; truthiness as in `if optimal_makespan:`
None == <<>>
Truthy(opt) == opt # None /\ opt[1] # 0

\* round(n / c) for integers n >= 0, c > 0: Python 3 rounds an exact half to
\* the even neighbour.  n / c is a float, and in the model's range a tie is an
\* exact k + 0.5 and any other quotient is at least 1/(2c) away from one.
round(n, c) ==
    LET q == n \div c
        r == n % c
    IN  IF 2 * r < c THEN q
        ELSE IF 2 * r > c THEN q + 1
        ELSE IF q % 2 = 0 THEN q ELSE q + 1

\* RealJobs with `!= 0` for `> 0`
RealJobsNonZero(inst) ==
    sorted(SelectSeq(DictKeys(inst.durations),
                     LAMBDA j : DictGet(inst.durations, j, 0) # 0))

\* RealJobs without sorted()
RealJobsUnsorted(inst) ==
    SelectSeq(DictKeys(inst.durations),
              LAMBDA j : DictGet(inst.durations, j, 0) > 0)

\* lines 163-164
RealJobs(inst) ==
    sorted(SelectSeq(DictKeys(inst.durations),
                     LAMBDA j : DictGet(inst.durations, j, 0) > 0))

\* Predecessors with `>= 0` for `> 0`
PredecessorsNonNegative(inst, job_id) ==
    DictKeys(SelectSeq(inst.precedence,
                       LAMBDA e : /\ job_id \in Range(e[2])
                                  /\ DictGet(inst.durations, e[1], 0) >= 0))

\* Predecessors without the test on the predecessor's duration
PredecessorsAnyDuration(inst, job_id) ==
    DictKeys(SelectSeq(inst.precedence, LAMBDA e : job_id \in Range(e[2])))

\* lines 172-175, in the iteration order of instance.precedence
Predecessors(inst, job_id) ==
    DictKeys(SelectSeq(inst.precedence,
                       LAMBDA e : /\ job_id \in Range(e[2])
                                  /\ DictGet(inst.durations, e[1], 0) > 0))

\* line 187
Pct(inst, res_id, demand) ==
    round(demand * 100, DictGet(inst.capacities, res_id, DefaultCapacity))

\* lines 181-188: the <<resource, pct>> pairs of the assign: line
Assignments(inst, job_id) ==
    LET job_demands == DictGet(inst.demands, job_id, <<>>)
        items == SelectSeq(sortedItems(job_demands), LAMBDA e : e[2] > 0)
    IN  [i \in 1..Len(items) |-> <<items[i][1], Pct(inst, items[i][1], items[i][2])>>]

\* line 187 divides by zero for some rendered job
ConvertRaises(inst) ==
    \E i \in 1..Len(RealJobs(inst)) :
        LET job_demands == DictGet(inst.demands, RealJobs(inst)[i], <<>>)
        IN  \E k \in 1..Len(job_demands) :
               /\ job_demands[k][2] > 0
               /\ DictGet(inst.capacities, job_demands[k][1], DefaultCapacity) = 0

\* lines 166-197: one job's block
TaskBlock(inst, job_id) ==
    LET assignments == Assignments(inst, job_id)
        predecessors == Predecessors(inst, job_id)
    IN  <<Line("task", job_id, <<>>),
          Line("duration", DictGet(inst.durations, job_id, 0), <<>>)>>
        \o (IF assignments # <<>> THEN <<Line("assign", 0, assignments)>> ELSE <<>>)
        \o (IF predecessors # <<>>
            THEN <<Line("depends", 0, sorted(predecessors))>> ELSE <<>>)
        \o <<Line("}", 0, <<>>)>>

RECURSIVE TaskBlocks(_, _)
TaskBlocks(inst, js) ==
    IF js = <<>> THEN <<>>
    ELSE TaskBlock(inst, Head(js)) \o TaskBlocks(inst, Tail(js))

\* lines 154-158: one resource's block
ResourceBlock(item) ==
    <<Line("resource", item[1], <<>>), Line("rate", 100, <<>>),
      Line("capacity", item[2], <<>>), Line("}", 0, <<>>)>>

RECURSIVE ResourceBlocks(_)
ResourceBlocks(items) ==
    IF items = <<>> THEN <<>>
    ELSE ResourceBlock(Head(items)) \o ResourceBlocks(Tail(items))

\* lines 128-200
convert_to_proj(inst, optimal_makespan) ==
    <<Line("instance", 0, inst.name), Line("jobs", inst.jobs, <<inst.resources>>)>>
    \o (IF Truthy(optimal_makespan)
        THEN <<Line("optimal", optimal_makespan[1], <<>>)>> ELSE <<>>)
    \o <<Line("source", 0, <<>>), Line("", 0, <<>>),
         Line("project", 0, inst.name), Line("start", 0, <<>>),
         Line("calendar:", 0, <<>>), Line("}", 0, <<>>), Line("", 0, <<>>),
         Line("calendar", 0, <<>>), Line("working_days", 0, <<>>),
         Line("}", 0, <<>>), Line("", 0, <<>>)>>
    \o ResourceBlocks(sortedItems(inst.capacities))
    \o <<Line("", 0, <<>>)>>
    \o TaskBlocks(inst, RealJobs(inst))
    \o <<Line("", 0, <<>>)>>

\* main, line 283: convert_to_proj(instance) on the parsed Instance
Convert ==
    /\ pc = "parsed"
    /\ IF ConvertRaises(Instance)
       THEN Raise("ZeroDivisionError") /\ UNCHANGED lines
       ELSE /\ lines' = convert_to_proj(Instance, None)
            /\ pc' = "rendered"
            /\ UNCHANGED exc
    /\ UNCHANGED <<toolVars, parseVars, loadVars, batchVars>>

(***************************************************************************)
(* parse_optimal_solutions, lines 203-215.                                 *)
(***************************************************************************)

\* SolAccepts with `> 3` for `>= 3`
SolAcceptsLonger(parts) == Len(parts) > 3 /\ isdigit(parts[1])

\* line 209
SolAccepts(parts) == Len(parts) >= 3 /\ isdigit(parts[1])

\* an int() of lines 210-212 raises ValueError
SolRaises(parts) ==
    IntRaises(parts[1]) \/ IntRaises(parts[2]) \/ IntRaises(parts[3])

\* lines 207-214: one line of the table
LoadLine(L, maxLines) ==
    /\ pc = "load"
    /\ Len(solText) < maxLines
    /\ \E parts \in L :
          /\ solText' = Append(solText, parts)
          /\ IF SolAccepts(parts)
             THEN IF SolRaises(parts)
                  THEN Raise("ValueError") /\ UNCHANGED solutions
                  ELSE /\ solutions' =
                            DictSet(solutions, <<int(parts[1]), int(parts[2])>>,
                                    int(parts[3]))
                       /\ UNCHANGED <<pc, exc>>
             ELSE UNCHANGED <<pc, exc, solutions>>
    /\ UNCHANGED <<toolVars, parseVars, lines, batchVars>>

\* line 215: the file is exhausted and the dict is returned
EndLoad ==
    /\ pc = "load"
    /\ pc' = "loaded"
    /\ UNCHANGED <<toolVars, parseVars, lines, exc, loadVars, batchVars>>

(***************************************************************************)
(* The disk.  A file is an instance text (kind "sm"), a rendered text     *)
(* (kind "proj") or something open() refuses (kind "unreadable": a         *)
(* directory, a file without read permission).  Paths are                  *)
(* <<directory, name>>.                                                    *)
(***************************************************************************)
NoText ==
    [header |-> <<NoMatch, NoMatch, NoMatch>>, prec |-> <<>>, req |-> <<>>,
     caps |-> NoMatch]

SmFile(text) == [kind |-> "sm", text |-> text, proj |-> <<>>]

ProjFile(ls) == [kind |-> "proj", text |-> NoText, proj |-> ls]

Unreadable == [kind |-> "unreadable", text |-> NoText, proj |-> <<>>]

\* open(output_file, 'w') then f.write(proj_content): "ok" writes the file in
\* full; with "open" the open raises OSError and the disk is untouched; with
\* "write" the file is created or truncated and f.write raises OSError
WriteOutcomes == {"ok", "open", "write"}

Written(disk, path, content, outcome) ==
    IF outcome = "open" THEN disk
    ELSE [p \in DOMAIN disk \cup {path} |->
             IF p = path
             THEN ProjFile(IF outcome = "ok" THEN content ELSE <<>>)
             ELSE disk[p]]

\* an uncaught exception: the traceback is printed and the process exits 1
Traceback(e) == pc' = "exit" /\ status' = <<1>> /\ exc' = e

(***************************************************************************)
(* batch_convert, lines 218-258.                                           *)
(***************************************************************************)

\* MkdirRaises with exist_ok=False
MkdirRaisesIfExists(state) == state # "absent"

\* line 222, mkdir(parents=True, exist_ok=True): FileExistsError only when
\* the path exists and is not a directory
MkdirRaises(state) == state = "file"

\* LoadsTable without the os.path.exists test
LoadsTableIfGiven(args, file) == args.solutions_file # None

\* line 226
LoadsTable(args, file) == args.solutions_file # None /\ file.exists

\* lines 207-214 over the whole table
RECURSIVE SolDict(_)
SolDict(ls) ==
    IF ls = <<>> THEN <<>>
    ELSE LET d == SolDict(SubSeq(ls, 1, Len(ls) - 1))
             parts == ls[Len(ls)]
         IN  IF SolAccepts(parts)
             THEN DictSet(d, <<int(parts[1]), int(parts[2])>>, int(parts[3]))
             ELSE d

\* some int() of lines 210-212 raises ValueError
SolTextRaises(ls) == \E i \in 1..Len(ls) : SolAccepts(ls[i]) /\ SolRaises(ls[i])

\* line 230: the names input_path.glob('*.sm') yields
Glob(disk, dir) ==
    {p[2] : p \in {q \in DOMAIN disk :
                      q[1] = dir /\ EndsWith(q[2], <<".", "s", "m">>)}}

\* IsSolutionFile without the 'lb' test
IsSolutionFileNoLb(name) ==
    Contains(name, <<"o", "p", "t">>) \/ Contains(name, <<"h", "r", "s">>)

\* line 231
IsSolutionFile(name) ==
    \/ Contains(name, <<"o", "p", "t">>)
    \/ Contains(name, <<"h", "r", "s">>)
    \/ Contains(name, <<"l", "b">>)

\* line 240, re.match(r'j\d+(\d+)_(\d+)', stem): <<group(1), group(2)>>.
\* The first \d+ is greedy and gives back one digit, so group(1) is the last
\* digit before the underscore; group(2) is the longest run after it.
Match(stem) ==
    LET n == DigitRun(stem, 2)
        k == DigitRun(stem, n + 3)
    IN  IF /\ Len(stem) >= n + 2
           /\ stem[1] = "j"
           /\ n >= 2
           /\ stem[n + 2] = "_"
           /\ k >= 1
        THEN <<SubSeq(stem, n + 1, n + 1), SubSeq(stem, n + 3, n + 2 + k)>>
        ELSE NoMatch

\* Optimal without the reset of line 238
OptimalStale(stem, sols, previous) ==
    LET match == Match(stem)
        key == <<IntOf(match[1]), IntOf(match[2])>>
    IN  IF match # NoMatch /\ sols # <<>> /\ DictHas(sols, key)
        THEN <<DictGet(sols, key, 0)>>
        ELSE previous

\* lines 238-243: `previous` is what the local holds from the iteration
\* before, which line 238 overwrites
Optimal(stem, sols, previous) ==
    LET match == Match(stem)
        key == <<IntOf(match[1]), IntOf(match[2])>>
    IN  IF match # NoMatch /\ sols # <<>> /\ DictHas(sols, key)
        THEN <<DictGet(sols, key, 0)>>
        ELSE None

\* line 247
OutputName(stem) == stem \o <<".", "p", "r", "o", "j">>

\* lines 235-249 and 282-286: the exception that parsing, rendering and
\* writing one file raises, "none" if none; w is the outcome of the write
Failure(content, stem, w) ==
    IF content.kind # "sm" THEN "OSError"
    ELSE IF ParseRaises(content.text) THEN "ValueError"
    ELSE IF ConvertRaises(parse_psplib(stem, content.text))
         THEN "ZeroDivisionError"
    ELSE IF w # "ok" THEN "OSError"
    ELSE "none"

\* Caught for `except ValueError`
CaughtValueError(e) == e = "ValueError"

\* Caught for `except ArithmeticError`
CaughtArithmeticError(e) == e = "ZeroDivisionError"

\* line 255, `except Exception`: every exception of the try body is one
Caught(e) == e \in {"OSError", "ValueError", "ZeroDivisionError"}

\* Count with the increment placed in a `finally`
CountAlways(n, e) == n + 1

\* line 251, reached when nothing before it raised
Count(n, e) == IF e = "none" THEN n + 1 ELSE n

\* lines 220-222
Mkdir ==
    /\ pc = "mkdir"
    /\ IF MkdirRaises(dirs[argv.output_dir])
       THEN Traceback("OSError") /\ UNCHANGED dirs
       ELSE /\ dirs' = [dirs EXCEPT ![argv.output_dir] = "dir"]
            /\ pc' = "solutions"
            /\ UNCHANGED <<exc, status>>
    /\ UNCHANGED <<toolVars, parseVars, lines, loadVars, argv, solFile, fs, queue,
                   converted, optimal, attempted, writes, warnings, loads,
                   printed>>

\* lines 225-230: the table is loaded, the counter is zeroed and the sorted
\* glob is taken
LoadSolutions ==
    /\ pc = "solutions"
    /\ IF LoadsTable(argv, solFile)
       THEN /\ loads' = loads + 1
            /\ solText' = solFile.text
            /\ IF SolTextRaises(solFile.text)
               THEN /\ Traceback("ValueError")
                    /\ UNCHANGED <<solutions, converted, queue>>
               ELSE /\ solutions' = SolDict(solFile.text)
                    /\ converted' = 0
                    /\ queue' = sortedNames(Glob(fs, argv.input_dir))
                    /\ pc' = "loop"
                    /\ UNCHANGED <<exc, status>>
       ELSE /\ solutions' = <<>>
            /\ converted' = 0
            /\ queue' = sortedNames(Glob(fs, argv.input_dir))
            /\ pc' = "loop"
            /\ UNCHANGED <<exc, status, loads, solText>>
    /\ UNCHANGED <<toolVars, parseVars, lines, argv, solFile, fs, dirs, optimal,
                   attempted, writes, warnings, printed>>

\* lines 231-232: a solution file is skipped
SkipFile ==
    /\ pc = "loop"
    /\ queue # <<>>
    /\ IsSolutionFile(Head(queue))
    /\ queue' = Tail(queue)
    /\ UNCHANGED <<toolVars, pc, parseVars, lines, exc, loadVars, argv, solFile, fs,
                   dirs, converted, optimal, attempted, writes, warnings,
                   loads, status, printed>>

\* lines 234-256: one candidate is parsed, rendered and written
ConvertFile ==
    /\ pc = "loop"
    /\ queue # <<>>
    /\ ~IsSolutionFile(Head(queue))
    /\ \E w \in WriteOutcomes :
          LET name == Head(queue)
              stem == Stem(name)
              content == fs[<<argv.input_dir, name>>]
              e == Failure(content, stem, w)
              parsed == content.kind = "sm" /\ ~ParseRaises(content.text)
              instance == parse_psplib(stem, content.text)
              opt == IF parsed THEN Optimal(stem, solutions, optimal)
                     ELSE optimal
              rendered == parsed /\ ~ConvertRaises(instance)
              proj_content == IF rendered THEN convert_to_proj(instance, opt)
                              ELSE lines
              output_file == <<argv.output_dir, OutputName(stem)>>
          IN  /\ attempted' = Append(attempted, name)
              /\ optimal' = opt
              /\ lines' = proj_content
              /\ fs' = IF rendered
                       THEN Written(fs, output_file, proj_content, w)
                       ELSE fs
              /\ writes' = IF rendered /\ w = "ok"
                           THEN Append(writes, output_file)
                           ELSE writes
              /\ converted' = Count(converted, e)
              /\ IF e = "none"
                 THEN /\ queue' = Tail(queue)
                      /\ UNCHANGED <<pc, exc, status, warnings>>
                 ELSE IF Caught(e)
                      THEN /\ warnings' = Append(warnings, name)
                           /\ queue' = Tail(queue)
                           /\ UNCHANGED <<pc, exc, status>>
                      ELSE /\ Traceback(e)
                           /\ UNCHANGED <<warnings, queue>>
    /\ UNCHANGED <<toolVars, parseVars, loadVars, argv, solFile, dirs, loads, printed>>

(***************************************************************************)
(* main, lines 261-289.  argv is [len, batch, ...]: len(sys.argv), whether *)
(* sys.argv[1] is '--batch', and the arguments by the names main gives     *)
(* them.  Uncaught exceptions end the process with status 1, a return from *)
(* main with status 0.                                                     *)
(***************************************************************************)

\* lines 262-264 and 267-269: too few arguments
MainUsage ==
    /\ pc = "main"
    /\ argv.len < 2 \/ (argv.batch /\ argv.len < 4)
    /\ pc' = "exit"
    /\ status' = <<1>>
    /\ UNCHANGED <<toolVars, parseVars, lines, exc, loadVars, argv, solFile, fs, dirs,
                   queue, converted, optimal, attempted, writes, warnings,
                   loads, printed>>

\* lines 266-276: batch mode calls batch_convert
MainBatch ==
    /\ pc = "main"
    /\ argv.len >= 4 /\ argv.batch
    /\ pc' = "mkdir"
    /\ UNCHANGED <<toolVars, parseVars, lines, exc, loadVars, batchVars>>

\* lines 258 and 277: the loop is exhausted, batch_convert returns the count,
\* main prints it and returns
MainReturn ==
    /\ pc = "loop"
    /\ queue = <<>>
    /\ printed' = <<converted>>
    /\ status' = <<0>>
    /\ pc' = "exit"
    /\ UNCHANGED <<toolVars, parseVars, lines, exc, loadVars, argv, solFile, fs, dirs,
                   queue, converted, optimal, attempted, writes, warnings,
                   loads>>

\* lines 279-289: single-file mode; the paths are relative to one directory
MainSingle ==
    /\ pc = "main"
    /\ argv.len >= 2 /\ ~argv.batch
    /\ \E w \in WriteOutcomes :
          LET input_file == argv.input_file
              output_file == IF argv.len > 2 THEN argv.output_file
                             ELSE Replace(input_file, <<".", "s", "m">>,
                                          <<".", "p", "r", "o", "j">>)
              src == <<argv.input_dir, input_file>>
              content == IF src \in DOMAIN fs THEN fs[src] ELSE Unreadable
              stem == Stem(input_file)
              e == Failure(content, stem, w)
              parsed == content.kind = "sm" /\ ~ParseRaises(content.text)
              instance == parse_psplib(stem, content.text)
              rendered == parsed /\ ~ConvertRaises(instance)
              proj_content == IF rendered THEN convert_to_proj(instance, None)
                              ELSE lines
              dst == <<argv.input_dir, output_file>>
          IN  /\ attempted' = Append(attempted, input_file)
              /\ lines' = proj_content
              /\ fs' = IF rendered THEN Written(fs, dst, proj_content, w)
                       ELSE fs
              /\ writes' = IF rendered /\ w = "ok" THEN Append(writes, dst)
                           ELSE writes
              /\ IF e = "none"
                 THEN pc' = "exit" /\ status' = <<0>> /\ UNCHANGED exc
                 ELSE Traceback(e)
    /\ UNCHANGED <<toolVars, parseVars, loadVars, argv, solFile, dirs, queue, converted,
                   optimal, warnings, loads, printed>>

(***************************************************************************)
(* The texts the specifications scan.                                      *)
(***************************************************************************)
Toks(S) == {IntTok(n) : n \in S}

\* canonical precedence lines: job-id, mode count, k, then exactly k successors
CanonPrecLines ==
    {<<IntTok(j), IntTok(1), IntTok(Len(s))>> \o s :
        j \in 1..MaxJob, s \in SeqsUpTo(Toks(1..MaxJob), MaxSucc)}

\* precedence lines that name the same successor twice
RepeatPrecLines ==
    {<<IntTok(j), IntTok(1), IntTok(2), IntTok(q), IntTok(q)>> :
        j \in 1..MaxJob, q \in 1..MaxJob}

\* request lines that carry durations only
DurLines ==
    {<<IntTok(j), IntTok(1), IntTok(d)>> : j \in 1..MaxJob, d \in -1..MaxDur}

\* request lines of jobs 1..2 with duration 0 or 1 and their demand tokens
DemandLines ==
    {<<IntTok(j), IntTok(1), IntTok(d)>> \o dem :
        j \in 1..2, d \in 0..1, dem \in SeqsUpTo(Toks(0..MaxDemand), MaxRes)}

\* precedence lines that are short, hold a word, or hold more than they announce
OddPrecLines ==
    {<<>>, <<IntTok(1), IntTok(1)>>,
     <<WordTok, IntTok(1), IntTok(0)>>,
     <<IntTok(1), WordTok, IntTok(0)>>,
     <<IntTok(1), IntTok(1), WordTok>>,
     <<IntTok(1), IntTok(1), IntTok(1), WordTok>>,
     <<IntTok(1), IntTok(1), IntTok(0), WordTok>>,
     <<IntTok(-1), IntTok(1), IntTok(2), IntTok(2)>>}

\* request lines that are short, hold a word, or do not start with digits
OddReqLines ==
    {<<>>, <<IntTok(1), IntTok(1)>>,
     <<WordTok, IntTok(1), IntTok(1)>>,
     <<IntTok(-1), IntTok(1), IntTok(1)>>,
     <<SupTok, IntTok(1), IntTok(1)>>,
     <<IntTok(1), WordTok, IntTok(1)>>,
     <<IntTok(1), IntTok(1), WordTok>>,
     <<IntTok(1), IntTok(1), IntTok(1), WordTok>>}

\* what the availability regex can capture: one or more integers
CapValues == {0, 1, 3, MaxCap}
CapMatches == SeqsUpTo(CapValues, MaxRes) \ {<<>>}

\* what a header search can capture
HeaderMatches(S) == {NoMatch} \cup {<<n>> : n \in S}

\* rows of the solutions table: <param> <instance> <makespan>
SolRows ==
    {<<IntTok(p), IntTok(i), IntTok(m)>> :
        p \in 1..MaxParam, i \in 1..MaxParam, m \in 1..MaxParam}

\* lines of the table with fewer than 3 tokens
ShortSolLines == {<<>>, <<WordTok>>, <<IntTok(1), IntTok(1)>>}

\* lines of the table with 3 tokens that are not three unsigned integers
OddSolLines ==
    {<<WordTok, IntTok(1), IntTok(1)>>,
     <<IntTok(-1), IntTok(1), IntTok(1)>>,
     <<SupTok, IntTok(1), IntTok(1)>>,
     <<IntTok(1), WordTok, IntTok(1)>>,
     <<IntTok(1), IntTok(1), WordTok>>}

\* no project has been read, no JVM started and no benchmark run
ToolIdle ==
    /\ project = [resources |-> <<>>, tasks |-> <<>>]
    /\ hash = <<>>
    /\ resource_map = <<>> /\ self_lines = <<>>
    /\ jvm = "off" /\ ret = <<>> /\ calls = <<>>
    /\ scheduled = <<>> /\ results = <<>> /\ report = <<>>

\* no command line has been given and nothing is on disk
BatchIdle ==
    /\ argv = [len |-> 1, batch |-> FALSE, input_dir |-> "in",
               output_dir |-> "out", solutions_file |-> None,
               input_file |-> <<>>, output_file |-> <<>>]
    /\ solFile = [exists |-> FALSE, text |-> <<>>]
    /\ fs = <<>>
    /\ dirs = [d \in {"in", "out"} |-> "absent"]
    /\ queue = <<>>
    /\ converted = 0
    /\ optimal = None
    /\ attempted = <<>> /\ writes = <<>> /\ warnings = <<>>
    /\ loads = 0
    /\ status = <<>>
    /\ printed = <<>>

Init ==
    /\ pc = "header"
    /\ precText = <<>> /\ reqText = <<>> /\ capText = NoMatch
    /\ jobs = DefaultJobs
    /\ num_resources = DefaultResources
    /\ horizon = DefaultHorizon
    /\ precedence = <<>> /\ durations = <<>> /\ demands = <<>>
    /\ capacities = <<>>
    /\ lines = <<>>
    /\ exc = "none"
    /\ solText = <<>> /\ solutions = <<>>
    /\ BatchIdle
    /\ ToolIdle

\* the alphabets of the scans: header matches, the lines of a block, the
\* availability match, the lines of the solutions table
NoMatches == {NoMatch}
JobsHeaders == HeaderMatches({MaxJob})
ResHeaders == HeaderMatches(1..MaxRes)
AnyResHeaders == HeaderMatches(0..MaxRes)
HorHeaders == HeaderMatches({1})
DepsPrecLines == CanonPrecLines \cup RepeatPrecLines
AnyPrecLines == CanonPrecLines \cup OddPrecLines
AnyReqLines == DemandLines \cup OddReqLines
AnyCapMatches == {NoMatch} \cup CapMatches
AnySolLines == SolRows \cup ShortSolLines \cup OddSolLines

(***************************************************************************)
(* SpecDeps: files whose precedence and durations vary, with no demand     *)
(* tokens and no availability block.                                       *)
(***************************************************************************)
NextDeps ==
    \/ ParseHeader(NoMatches, NoMatches, NoMatches)
    \/ PrecLine(DepsPrecLines, MaxPrecLines)
    \/ EndPrec
    \/ ReqLine(DurLines, MaxReqLines)
    \/ EndReq
    \/ ParseCaps(NoMatches)
    \/ Convert

SpecDeps == Init /\ [][NextDeps]_vars

(***************************************************************************)
(* SpecJobs: files whose durations vary, with an empty precedence block,   *)
(* no demand tokens and no availability block.                             *)
(***************************************************************************)
NextJobs ==
    \/ ParseHeader(NoMatches, NoMatches, NoMatches)
    \/ EndPrec
    \/ ReqLine(DurLines, MaxReqLines)
    \/ EndReq
    \/ ParseCaps(NoMatches)
    \/ Convert

SpecJobs == Init /\ [][NextJobs]_vars

(***************************************************************************)
(* SpecAssign: files whose request lines (well-formed or not), resource    *)
(* count and availability line vary, with an empty precedence block.       *)
(***************************************************************************)
NextAssign ==
    \/ ParseHeader(NoMatches, ResHeaders, NoMatches)
    \/ EndPrec
    \/ ReqLine(AnyReqLines, MaxDemandLines)
    \/ EndReq
    \/ ParseCaps(AnyCapMatches)
    \/ Convert

SpecAssign == Init /\ [][NextAssign]_vars

(***************************************************************************)
(* Spec: files in which every block holds at most MaxLines lines of any    *)
(* kind, well-formed or not, under every header.                           *)
(***************************************************************************)
Next ==
    \/ ParseHeader(JobsHeaders, AnyResHeaders, HorHeaders)
    \/ PrecLine(AnyPrecLines, MaxLines)
    \/ EndPrec
    \/ ReqLine(AnyReqLines, MaxLines)
    \/ EndReq
    \/ ParseCaps(AnyCapMatches)
    \/ Convert

Spec == Init /\ [][Next]_vars

(***************************************************************************)
(* SpecPrec: files whose precedence block holds lines of jobs 1..2 with up *)
(* to MaxOrder successors in any order, a numeric or a non-numeric mode    *)
(* token, and lines of fewer than 3 tokens.                                *)
(***************************************************************************)
OrderPrecLines ==
    {<<IntTok(j), m, IntTok(Len(s))>> \o s :
        j \in 1..2, m \in {IntTok(1), WordTok},
        s \in SeqsUpTo(Toks(1..2), MaxOrder)}

ShortPrecLines == {<<>>, <<IntTok(1), IntTok(1)>>}

PrecAlphabet == OrderPrecLines \cup ShortPrecLines

NextPrec ==
    \/ ParseHeader(NoMatches, NoMatches, NoMatches)
    \/ PrecLine(PrecAlphabet, MaxOrderLines)
    \/ EndPrec

SpecPrec == Init /\ [][NextPrec]_vars

(***************************************************************************)
(* SpecLoad: parse_optimal_solutions on every table of at most MaxSolLines *)
(* lines.                                                                  *)
(***************************************************************************)
InitLoad ==
    /\ pc = "load"
    /\ precText = <<>> /\ reqText = <<>> /\ capText = NoMatch
    /\ jobs = DefaultJobs
    /\ num_resources = DefaultResources
    /\ horizon = DefaultHorizon
    /\ precedence = <<>> /\ durations = <<>> /\ demands = <<>>
    /\ capacities = <<>>
    /\ lines = <<>>
    /\ exc = "none"
    /\ solText = <<>> /\ solutions = <<>>
    /\ BatchIdle
    /\ ToolIdle

NextLoad ==
    \/ LoadLine(AnySolLines, MaxSolLines)
    \/ EndLoad

SpecLoad == InitLoad /\ [][NextLoad]_vars

(***************************************************************************)
(* SpecMain: every command line over a small disk.  The input directory    *)
(* holds at most MaxFiles files: instances named as the PSPLIB sets name   *)
(* them, solution files, a file without the .sm extension, and the hidden  *)
(* files .sm and .sm.sm, well-formed.                                      *)
(***************************************************************************)
SmExt == <<".", "s", "m">>

\* j30{param}_{instance}.sm for the parameters 1, 10 and 2, instance 1
CandidateNames ==
    {<<"j", "3", "0", "1", "_", "1">> \o SmExt,
     <<"j", "3", "0", "1", "0", "_", "1">> \o SmExt,
     <<"j", "3", "0", "2", "_", "1">> \o SmExt}

SolutionNames ==
    {<<"j", "3", "0", "o", "p", "t">> \o SmExt,
     <<"j", "3", "0", "h", "r", "s">> \o SmExt,
     <<"b", "u", "l", "b">> \o SmExt}

OtherNames == {<<"j", "3", "0", "1", "_", "1", ".", "t", "x", "t">>}

\* a hidden file named .sm, which glob('*.sm') also yields, and .sm.sm
HiddenNames == {SmExt, SmExt \o SmExt}

\* two jobs, job 2 after job 1, one resource of capacity 8
TextOk ==
    [header |-> <<<<2>>, <<1>>, NoMatch>>,
     prec |-> <<<<IntTok(1), IntTok(1), IntTok(1), IntTok(2)>>>>,
     req |-> <<<<IntTok(1), IntTok(1), IntTok(1), IntTok(2)>>,
               <<IntTok(2), IntTok(1), IntTok(1), IntTok(0)>>>>,
     caps |-> <<8>>]

\* a precedence line whose job-id is not a number
TextBadLine ==
    [header |-> <<NoMatch, NoMatch, NoMatch>>,
     prec |-> <<<<WordTok, IntTok(1), IntTok(0)>>>>,
     req |-> <<>>, caps |-> NoMatch]

\* a demand on a resource of capacity 0
TextZeroCap ==
    [header |-> <<<<1>>, <<1>>, NoMatch>>,
     prec |-> <<>>,
     req |-> <<<<IntTok(1), IntTok(1), IntTok(1), IntTok(1)>>>>,
     caps |-> <<0>>]

CandidateContents ==
    {SmFile(TextOk), SmFile(NoText), SmFile(TextBadLine), SmFile(TextZeroCap),
     Unreadable}

\* the listings of the input directory
Listings ==
    LET names == CandidateNames \cup SolutionNames \cup OtherNames
                    \cup HiddenNames
        sets == {S \in SUBSET names : Cardinality(S) <= MaxFiles}
    IN  UNION {{f \in [S -> CandidateContents] :
                   \A n \in S \ CandidateNames : f[n] = SmFile(TextOk)} :
               S \in sets}

\* a file left in the output directory by an earlier run
OldOutput == <<"out", <<"j", "3", "0", "1", "_", "1", ".", "p", "r", "o", "j">>>>

Disk(listing, old) ==
    [p \in {<<"in", n>> : n \in DOMAIN listing}
           \cup (IF old THEN {OldOutput} ELSE {}) |->
        IF p = OldOutput THEN ProjFile(<<>>) ELSE listing[p[2]]]

\* solution tables: a heading and two rows; two rows; a row with a word
Tables ==
    {<<<<WordTok, WordTok, WordTok>>,
       <<IntTok(1), IntTok(1), IntTok(3)>>,
       <<IntTok(10), IntTok(1), IntTok(4)>>>>,
     <<<<IntTok(2), IntTok(1), IntTok(5)>>,
       <<IntTok(0), IntTok(1), IntTok(6)>>>>,
     <<<<IntTok(1), WordTok, IntTok(3)>>>>}

NoSolFile == [exists |-> FALSE, text |-> <<>>]

SolFiles == {NoSolFile} \cup {[exists |-> TRUE, text |-> t] : t \in Tables}

Args(len, batch, output_dir, solutions_file, input_file, output_file) ==
    [len |-> len, batch |-> batch, input_dir |-> "in",
     output_dir |-> output_dir, solutions_file |-> solutions_file,
     input_file |-> input_file, output_file |-> output_file]

NoArgs == Args(1, FALSE, "out", None, <<>>, <<>>)

UsageArgvs == {NoArgs, Args(2, TRUE, "out", None, <<>>, <<>>),
               Args(3, TRUE, "out", None, <<>>, <<>>)}

BatchArgvs ==
    {Args(4, TRUE, o, None, <<>>, <<>>) : o \in {"in", "out"}}
    \cup {Args(5, TRUE, o, <<"sol">>, <<>>, <<>>) : o \in {"in", "out"}}

SingleArgvs ==
    {Args(2, FALSE, "in", None, n, <<>>) : n \in CandidateNames \cup OtherNames}
    \cup {Args(3, FALSE, "in", None, n, <<"o", ".", "p", "r", "o", "j">>) :
             n \in CandidateNames}

ParseIdle ==
    /\ precText = <<>> /\ reqText = <<>> /\ capText = NoMatch
    /\ jobs = DefaultJobs
    /\ num_resources = DefaultResources
    /\ horizon = DefaultHorizon
    /\ precedence = <<>> /\ durations = <<>> /\ demands = <<>>
    /\ capacities = <<>>

InitMain ==
    /\ pc = "main"
    /\ ParseIdle
    /\ lines = <<>>
    /\ exc = "none"
    /\ solText = <<>> /\ solutions = <<>>
    /\ argv \in UsageArgvs \cup BatchArgvs \cup SingleArgvs
    /\ solFile \in (IF argv.solutions_file = None THEN {NoSolFile} ELSE SolFiles)
    /\ \E out \in {"absent", "dir", "file"}, old \in BOOLEAN, l \in Listings :
          /\ old => out = "dir"
          /\ out # "absent" => argv.batch /\ argv.len >= 4 /\ argv.output_dir = "out"
          /\ dirs = [d \in {"in", "out"} |-> IF d = "in" THEN "dir" ELSE out]
          /\ fs = Disk(l, old)
    /\ queue = <<>>
    /\ converted = 0
    /\ optimal = None
    /\ attempted = <<>> /\ writes = <<>> /\ warnings = <<>>
    /\ loads = 0
    /\ status = <<>>
    /\ printed = <<>>
    /\ ToolIdle

NextMain ==
    \/ MainUsage
    \/ MainBatch
    \/ Mkdir
    \/ LoadSolutions
    \/ SkipFile
    \/ ConvertFile
    \/ MainReturn
    \/ MainSingle

SpecMain == InitMain /\ [][NextMain]_vars

(***************************************************************************)
(* SpecRender: convert_to_proj called on Instances built directly, as a    *)
(* caller of the function may build them: every Instance whose maps have   *)
(* keys in 1..MaxKeys, with and without an optimal makespan.               *)
(***************************************************************************)

\* the dict of the function f on the set S of integers, keys ascending
RECURSIVE DictOf(_, _)
DictOf(f, S) ==
    IF S = {} THEN <<>>
    ELSE LET k == CHOOSE x \in S : \A y \in S : y <= x
         IN  Append(DictOf(f, S \ {k}), <<k, f[k]>>)

AscDicts(K, V) == UNION {{DictOf(f, S) : f \in [S -> V]} : S \in SUBSET K}

InitRender ==
    /\ pc = "parsed"
    /\ precText = <<>> /\ reqText = <<>> /\ capText = NoMatch
    /\ jobs = DefaultJobs
    /\ num_resources = DefaultResources
    /\ horizon = DefaultHorizon
    /\ precedence \in AscDicts(1..MaxKeys, SeqsUpTo(1..MaxKeys, 1))
    /\ durations \in AscDicts(1..MaxKeys, 0..1)
    /\ demands \in AscDicts(1..MaxKeys, AscDicts(1..MaxKeys, {1}))
    /\ capacities \in AscDicts(1..MaxKeys, {0, MaxCap})
    /\ lines = <<>>
    /\ exc = "none"
    /\ solText = <<>> /\ solutions = <<>>
    /\ argv = NoArgs
    /\ solFile = NoSolFile
    /\ fs = <<>>
    /\ dirs = [d \in {"in", "out"} |-> "absent"]
    /\ queue = <<>>
    /\ converted = 0
    /\ optimal \in {None, <<MaxParam>>}
    /\ attempted = <<>> /\ writes = <<>> /\ warnings = <<>>
    /\ loads = 0
    /\ status = <<>>
    /\ printed = <<>>
    /\ ToolIdle

\* line 245: convert_to_proj(instance, optimal)
Render ==
    /\ pc = "parsed"
    /\ IF ConvertRaises(Instance)
       THEN Raise("ZeroDivisionError") /\ UNCHANGED lines
       ELSE /\ lines' = convert_to_proj(Instance, optimal)
            /\ pc' = "rendered"
            /\ UNCHANGED exc
    /\ UNCHANGED <<toolVars, parseVars, loadVars, batchVars>>

NextRender == Render

SpecRender == InitRender /\ [][NextRender]_vars

(***************************************************************************)
(* Reading the rendered text.                                              *)
(***************************************************************************)
TaskLines(out) == {i \in 1..Len(out) : out[i].kind = "task"}

\* the line that closes the block opened at line i
BlockEnd(out, i) ==
    CHOOSE k \in (i + 1)..Len(out) :
        out[k].kind = "}" /\ \A m \in (i + 1)..(k - 1) : out[m].kind # "}"

\* the lines of the given kind in the block opened at line i
InBlock(out, i, kind) ==
    {k \in (i + 1)..(BlockEnd(out, i) - 1) : out[k].kind = kind}

StrictlyAscending(s) == \A a, b \in 1..Len(s) : a < b => s[a] < s[b]

\* the jobs P with job_id in precedence[P] and durations[P] > 0
DeclaredPredecessors(job_id) ==
    {precedence[k][1] : k \in
        {k \in 1..Len(precedence) :
            /\ job_id \in Range(precedence[k][2])
            /\ \E m \in 1..Len(durations) :
                  durations[m][1] = precedence[k][1] /\ durations[m][2] > 0}}

(***************************************************************************)
(* C1: every rendered task J has a depends: line listing exactly the jobs  *)
(* P with J in precedence[P] and durations[P] > 0, ascending and without   *)
(* duplicates; when there is no such P, J has no depends: line.            *)
(***************************************************************************)
C1_DependsExact ==
    pc = "rendered" =>
        \A i \in TaskLines(lines) :
            LET E == DeclaredPredecessors(lines[i].id)
                D == InBlock(lines, i, "depends")
            IN  IF E = {} THEN D = {}
                ELSE /\ Cardinality(D) = 1
                     /\ \A k \in D : /\ StrictlyAscending(lines[k].items)
                                     /\ Range(lines[k].items) = E

\* job 3 depends on jobs 1 and 2, which the precedence block lists as 2, 1
C1_Witness ==
    /\ pc = "rendered"
    /\ DictKeys(precedence) = <<2, 1>>
    /\ \E i \in TaskLines(lines) :
          /\ lines[i].id = 3
          /\ \E k \in InBlock(lines, i, "depends") : lines[k].items = <<1, 2>>

C3_TasksAscending ==
    pc = "rendered" =>
        \A a, b \in TaskLines(lines) : a < b => lines[a].id < lines[b].id

\* three jobs rendered from a durations dict filled in the order 3, 1, 2
C3_Witness ==
    /\ pc = "rendered"
    /\ DictKeys(durations) = <<3, 1, 2>>
    /\ Cardinality(TaskLines(lines)) = 3

\* the demand stored for resource r of job job_id
StoredDemand(job_id, r) == DictGet(DictGet(demands, job_id, <<>>), r, 0)

\* the resources listed by the assign: lines of the block opened at line i
Listed(out, i) ==
    UNION {{out[k].items[a][1] : a \in 1..Len(out[k].items)} :
              k \in InBlock(out, i, "assign")}

(***************************************************************************)
(* C4 as stated: for a rendered job and a resource of capacity c >= 1 on   *)
(* which it has the positive demand d, the percentage of the assign: line  *)
(* is d*100/c rounded to the nearest integer with an exact half rounded    *)
(* away from zero, floor((200*d + c) / (2*c)).                             *)
(***************************************************************************)
C4_HalfAwayFromZero ==
    pc = "rendered" =>
        \A i \in TaskLines(lines) :
            \A k \in InBlock(lines, i, "assign") :
                \A a \in 1..Len(lines[k].items) :
                    LET r == lines[k].items[a][1]
                        d == StoredDemand(lines[i].id, r)
                        c == DictGet(capacities, r, DefaultCapacity)
                    IN  c >= 1 =>
                           lines[k].items[a][2] = (200 * d + c) \div (2 * c)

\* the last request line that set the entries of job_id
LastReqLine(job_id) ==
    LET K == {k \in 1..Len(reqText) :
                 /\ Len(reqText[k]) >= 3
                 /\ reqText[k][1].int /\ reqText[k][1].digits
                 /\ reqText[k][1].val = job_id}
    IN  reqText[CHOOSE k \in K : \A m \in K : m <= k]

\* the i-th demand token of the line exists, is among the first `resources`
\* ones and is strictly positive
PositiveToken(parts, i) ==
    /\ i >= 1 /\ i <= num_resources
    /\ 3 + i <= Len(parts)
    /\ parts[3 + i].val > 0

(***************************************************************************)
(* C5: the demands dict never stores a zero demand, and a rendered job J   *)
(* lists resource Ri in its assign: line iff the i-th demand token         *)
(* (i <= resources) of J's request line is strictly positive; a job with   *)
(* no positive demand has no assign: line at all.  (J's request line is    *)
(* the last one read for J.)                                               *)
(***************************************************************************)
C5_AssignIffPositive ==
    /\ \A m \in 1..Len(demands) :
          \A k \in 1..Len(demands[m][2]) : demands[m][2][k][2] > 0
    /\ pc = "rendered" =>
          \A i \in TaskLines(lines) :
              LET parts == LastReqLine(lines[i].id)
                  A == InBlock(lines, i, "assign")
              IN  /\ Cardinality(A) <= 1
                  /\ \A k \in A : lines[k].items # <<>>
                  /\ \A r \in (1..Len(parts)) \cup Listed(lines, i) :
                        r \in Listed(lines, i) <=> PositiveToken(parts, r)

\* a rendered job whose line holds a zero and a positive demand, and one whose
\* demands are all zero
C5_Witness ==
    /\ pc = "rendered"
    /\ \E i \in TaskLines(lines) :
          /\ Listed(lines, i) = {2}
          /\ LastReqLine(lines[i].id)[4] = IntTok(0)
    /\ \E i \in TaskLines(lines) :
          /\ InBlock(lines, i, "assign") = {}
          /\ Len(LastReqLine(lines[i].id)) > 3

(***************************************************************************)
(* C6 as stated: every resource label of a parsed Instance's demands is a  *)
(* key of its capacities, so that every resource of an assign: line has a  *)
(* resource block earlier in the text.                                     *)
(***************************************************************************)
C6_DemandsWithinCapacities ==
    /\ pc \in {"parsed", "rendered"} =>
          \A m \in 1..Len(demands) :
              \A k \in 1..Len(demands[m][2]) :
                  DictHas(capacities, demands[m][2][k][1])
    /\ pc = "rendered" =>
          \A i \in TaskLines(lines) :
              \A r \in Listed(lines, i) :
                  \E b \in 1..(i - 1) :
                      lines[b].kind = "resource" /\ lines[b].id = r

(***************************************************************************)
(* C7 as stated: every capacity of a parsed Instance is at least 1, and    *)
(* the percentage computation never divides by zero.                       *)
(***************************************************************************)
C7_CapacitiesPositive ==
    /\ pc \in {"parsed", "rendered", "raised"} =>
          \A m \in 1..Len(capacities) : capacities[m][2] >= 1
    /\ exc # "ZeroDivisionError"

(***************************************************************************)
(* C8 as stated: parse_psplib raises on no file it could read, an empty or *)
(* missing block yields its default, and a malformed line of the           *)
(* precedence or requests/durations block is skipped without raising.      *)
(***************************************************************************)
C8_ParseNeverRaises ==
    /\ exc # "ValueError"
    /\ pc = "parsed" =>
          /\ precText = <<>> => precedence = <<>>
          /\ reqText = <<>> => durations = <<>> /\ demands = <<>>
          /\ capText = NoMatch =>
                capacities = [i \in 1..num_resources |-> <<i, DefaultCapacity>>]

\* the three tokens of a line all convert with int()
ThreeInts(parts) ==
    Len(parts) >= 3 /\ parts[1].int /\ parts[2].int /\ parts[3].int

(***************************************************************************)
(* C9 as stated: parse_optimal_solutions accepts a line iff it has at      *)
(* least 3 tokens and the first three parse as integers, skips every other *)
(* line silently, and never raises because of a line's content.            *)
(***************************************************************************)
C9_AcceptsIffThreeInts ==
    /\ exc = "none"
    /\ \A k \in 1..Len(solText) :
          ThreeInts(solText[k]) =>
              DictHas(solutions, <<solText[k][1].val, solText[k][2].val>>)
    /\ \A m \in 1..Len(solutions) :
          \E k \in 1..Len(solText) :
              /\ ThreeInts(solText[k])
              /\ solutions[m][1] = <<solText[k][1].val, solText[k][2].val>>

\* a row `<param> <instance> <makespan>` of unsigned integers
WellFormedRow(parts) ==
    /\ Len(parts) = 3
    /\ \A t \in 1..3 : parts[t].digits /\ parts[t].int

\* the rows of the table read so far with the key <<p, i>>
RowsOf(key) ==
    {k \in 1..Len(solText) :
        /\ WellFormedRow(solText[k])
        /\ <<solText[k][1].val, solText[k][2].val>> = key}

(***************************************************************************)
(* C10: on a table made of well-formed rows and of lines of fewer than 3   *)
(* tokens, parse_optimal_solutions does not raise and returns exactly the  *)
(* mapping of the rows: its keys are the rows' (param, instance) pairs,    *)
(* each with the makespan of the last row that has the key.                *)
(***************************************************************************)
C10_RowsLoaded ==
    (\A k \in 1..Len(solText) :
        WellFormedRow(solText[k]) \/ Len(solText[k]) < 3)
    => /\ pc # "raised"
       /\ \A m \in 1..Len(solutions) : RowsOf(solutions[m][1]) # {}
       /\ \A k \in 1..Len(solText) :
             WellFormedRow(solText[k]) =>
                LET key == <<solText[k][1].val, solText[k][2].val>>
                    last == CHOOSE n \in RowsOf(key) : \A m \in RowsOf(key) : m <= n
                IN  /\ DictHas(solutions, key)
                    /\ DictGet(solutions, key, 0) = solText[last][3].val

\* a row, a short line and another row, both rows loaded
C10_Witness ==
    /\ pc = "loaded"
    /\ Len(solText) = 3
    /\ WellFormedRow(solText[1])
    /\ Len(solText[2]) < 3 /\ solText[2] # <<>>
    /\ WellFormedRow(solText[3])
    /\ Len(solutions) = 2

(***************************************************************************)
(* Reading a batch run.                                                    *)
(***************************************************************************)

\* the process is in batch_convert's loop, or has left it by returning
InLoop == pc = "loop"

Returned == printed # <<>>

\* the output files written in full by this invocation
OutputFiles == Range(writes)

(***************************************************************************)
(* C11: while batch_convert iterates and when it returns, the count is     *)
(* the number of output files written in full by this invocation: it is    *)
(* one more after each successful write, the same after a file that fails  *)
(* in parse, render or write, and the count printed is that number.        *)
(***************************************************************************)
C11_CountIsWrites ==
    /\ InLoop =>
          /\ converted = Len(writes)
          /\ converted = Cardinality(OutputFiles)
          /\ \A p \in OutputFiles : p \in DOMAIN fs /\ fs[p].kind = "proj"
    /\ Returned => printed = <<Cardinality(OutputFiles)>>

\* three candidates, one of which fails: the count is 2, with 2 output files
C11_Witness ==
    /\ Returned
    /\ Len(attempted) = 3
    /\ Len(warnings) = 1
    /\ printed = <<2>>
    /\ Cardinality(OutputFiles) = 2

\* the candidates of the input directory, by the code's own tests
Candidates == {n \in Glob(fs, argv.input_dir) : ~IsSolutionFile(n)}

Occurrences(s, x) == Cardinality({i \in 1..Len(s) : s[i] = x})

\* the last element of a non-empty sequence
LastLine(text) == text[Len(text)]

(***************************************************************************)
(* C12: once batch_convert iterates, no failure of a candidate ends the    *)
(* run: each step stays in the loop or returns the count with status 0;    *)
(* every candidate is attempted exactly once (it is either still queued or *)
(* was attempted, never both, never twice); the attempt of a candidate     *)
(* that writes no output file in full prints one warning, naming it, the   *)
(* attempt of any other candidate prints none, and no other step prints    *)
(* one; and the loop terminates: each of its steps shortens the queue or   *)
(* returns (the guards of SkipFile, ConvertFile and MainReturn cover every *)
(* loop state, so a step is always possible).                              *)
(***************************************************************************)
C12_FailureNeverAborts ==
    /\ [][InLoop => \/ pc' = "loop"
                    \/ pc' = "exit" /\ status' = <<0>> /\ printed' = <<converted>>]_vars
    /\ [](InLoop \/ Returned =>
            /\ \A n \in Candidates :
                  Occurrences(attempted, n) + Occurrences(queue, n) = 1
            /\ \A n \in Range(attempted) : n \in Candidates
            /\ \A n \in Range(attempted) : Occurrences(warnings, n) <= 1
            /\ \A n \in Range(warnings) : n \in Range(attempted))
    /\ [][InLoop /\ attempted' # attempted =>
             IF writes' = writes
             THEN warnings' = Append(warnings, LastLine(attempted'))
             ELSE warnings' = warnings]_vars
    /\ [][InLoop => Len(queue') < Len(queue) \/ Returned']_vars

\* three candidates, the first two fail, the third is still converted
C12_Witness ==
    /\ Returned
    /\ Len(attempted) = 3
    /\ warnings = <<attempted[1], attempted[2]>>
    /\ printed = <<1>>

\* the (p, i) of a candidate j30{p}_{i}.sm, read off the name as PSPLIB
\* builds it: p is every digit after `j30` up to the underscore
Naming(name) ==
    LET stem == SubSeq(name, 1, Len(name) - Len(SmExt))
        u == CHOOSE k \in 1..Len(stem) : stem[k] = "_"
    IN  <<IntOf(SubSeq(stem, 4, u - 1)), IntOf(SubSeq(stem, u + 1, Len(stem)))>>

\* the makespans of the `# Optimal Makespan:` comments of a rendered text
OptimalComments(out) ==
    {out[k].id : k \in {i \in 1..Len(out) : out[i].kind = "optimal"}}

(***************************************************************************)
(* C13: with a loaded solutions table, the output file of a candidate      *)
(* j30{p}_{i}.sm carries the comment `# Optimal Makespan: m` with          *)
(* m = solutions[(p, i)] when the table has the key (p, i), and no such    *)
(* comment when it has not.                                                *)
(***************************************************************************)
C13_IdentityFromName ==
    \A n \in CandidateNames :
        LET path == <<argv.output_dir, OutputName(Stem(n))>>
        IN  (InLoop \/ Returned) /\ path \in OutputFiles /\ solutions # <<>> =>
               OptimalComments(fs[path].proj) =
                  IF DictHas(solutions, Naming(n))
                  THEN {DictGet(solutions, Naming(n), 0)}
                  ELSE {}

\* the characters of name from position i on begin with the word w
SpellsAt(name, i, w) ==
    /\ i + Len(w) - 1 <= Len(name)
    /\ \A k \in 1..Len(w) : name[i + k - 1] = w[k]

Markers == {<<"o", "p", "t">>, <<"h", "r", "s">>, <<"l", "b">>}

HasMarker(name) == \E i \in 1..Len(name), w \in Markers : SpellsAt(name, i, w)

HasSmExtension(name) == SpellsAt(name, Len(name) - 2, SmExt)

IsCandidate(name) == HasSmExtension(name) /\ ~HasMarker(name)

\* the names of the files of the input directory
InputNames == {p[2] : p \in {q \in DOMAIN fs : q[1] = argv.input_dir}}

(***************************************************************************)
(* C14: the files batch_convert parses are exactly the files of input_dir  *)
(* that end in .sm and contain none of `opt`, `hrs`, `lb`: each such file  *)
(* is queued or attempted exactly once and all are attempted at the        *)
(* return, and any other file is never attempted, has no warning, and no   *)
(* output file or count is due to it (every output file written is the     *)
(* .proj of a candidate, and the count is the number of these writes).     *)
(***************************************************************************)
C14_CandidatesExact ==
    InLoop \/ Returned =>
       /\ \A n \in InputNames :
             IF IsCandidate(n)
             THEN /\ Occurrences(attempted, n) + Occurrences(queue, n) = 1
                  /\ Returned => n \in Range(attempted)
             ELSE /\ n \notin Range(attempted)
                  /\ n \notin Range(warnings)
                  /\ HasSmExtension(n) =>
                        <<argv.output_dir, OutputName(Stem(n))>> \notin OutputFiles
       /\ \A p \in OutputFiles :
             \E c \in InputNames :
                 IsCandidate(c) /\ p = <<argv.output_dir, OutputName(Stem(c))>>
       /\ converted = Len(writes)

\* a directory with a solution file, a file that is no .sm file and an
\* instance: one file was attempted and converted
C14_Witness ==
    /\ Returned
    /\ InputNames \cap SolutionNames # {}
    /\ InputNames \cap OtherNames # {}
    /\ Len(attempted) = 1
    /\ printed = <<1>>

\* the files under the output directory
FilesIn(disk, dir) == {p \in DOMAIN disk : p[1] = dir}

(***************************************************************************)
(* C15: a step that creates or writes a file starts from a state in which  *)
(* the output directory exists; and the creation is idempotent: when the   *)
(* output directory already exists, the mkdir step does not raise, goes on *)
(* to the rest of batch_convert and leaves every file on disk as it was,   *)
(* and no later step of the run removes a file.                            *)
(***************************************************************************)
C15_OutputDirFirst ==
    /\ [][argv.batch /\ fs' # fs => dirs[argv.output_dir] = "dir"]_vars
    /\ [][pc = "mkdir" /\ dirs[argv.output_dir] = "dir" =>
             /\ pc' = "solutions"
             /\ exc' = "none"
             /\ dirs' = dirs
             /\ fs' = fs]_vars
    /\ [][argv.batch => DOMAIN fs \subseteq DOMAIN fs']_vars

\* the output directory held a file of an earlier run; the run went through
\* and wrote another file beside it
C15_Witness ==
    /\ Returned
    /\ argv.output_dir = "out"
    /\ OldOutput \in DOMAIN fs
    /\ fs[OldOutput] = ProjFile(<<>>)
    /\ Cardinality(FilesIn(fs, "out")) = 2
    /\ printed = <<1>>

\* a solutions_file argument was given
Given == argv.solutions_file # None

\* nothing is loaded after the loop has begun, and what was loaded stays as it is
LoadedBeforeLoop ==
    /\ [][loads' # loads => pc = "solutions" /\ attempted = <<>>]_vars
    /\ [][InLoop => solutions' = solutions /\ loads' = loads]_vars

(***************************************************************************)
(* C16, as stated: whenever a solutions_file argument is given, the table  *)
(* has been loaded exactly once when the loop runs and when it has         *)
(* returned; it is loaded before any candidate is attempted, and the       *)
(* mapping is not modified by the loop.                                    *)
(***************************************************************************)
C16_LoadedOnceIfGiven ==
    /\ [](Given /\ (InLoop \/ Returned) => loads = 1)
    /\ LoadedBeforeLoop

(***************************************************************************)
(* C16, amended: when a solutions_file argument is given and names an      *)
(* existing file, the table has been loaded exactly once when the loop     *)
(* runs and when it has returned, and the mapping is that of the file;     *)
(* when no argument is given or the path does not exist, nothing is loaded *)
(* and the mapping is empty.  In both cases nothing is loaded once a       *)
(* candidate has been attempted, and the loop does not modify the mapping. *)
(***************************************************************************)
C16_LoadedOnceIfExists ==
    /\ [](InLoop \/ Returned =>
            IF Given /\ solFile.exists
            THEN loads = 1 /\ solutions = SolDict(solFile.text)
            ELSE loads = 0 /\ solutions = <<>>)
    /\ LoadedBeforeLoop

\* the table was loaded once and two candidates were converted with it, the
\* second with a makespan comment
C16_Witness ==
    /\ Returned
    /\ loads = 1
    /\ Len(solutions) = 2
    /\ Len(attempted) = 2
    /\ printed = <<2>>
    /\ optimal # None

\* the orders in which the keys of the dict d may have been inserted
Orders(d) ==
    {[i \in 1..Len(d) |-> d[p[i]]] :
        p \in {q \in [1..Len(d) -> 1..Len(d)] :
                  \A i, j \in 1..Len(d) : q[i] = q[j] => i = j}}

\* the same for a dict of dicts
NestedOrders(d) ==
    UNION {{[i \in 1..Len(o) |-> <<o[i][1], f[i]>>] :
               f \in {g \in [1..Len(o) -> UNION {Orders(e[2]) : e \in Range(o)}] :
                         \A i \in 1..Len(o) : g[i] \in Orders(o[i][2])}} :
           o \in Orders(d)}

\* the Instances equal to Instance as values
EqualInstances ==
    {[Instance EXCEPT !.precedence = p, !.durations = du, !.demands = de,
                      !.capacities = c] :
        p \in Orders(precedence), du \in Orders(durations),
        de \in NestedOrders(demands), c \in Orders(capacities)}

(***************************************************************************)
(* C17: a call of convert_to_proj on any Instance equal as a value to the  *)
(* one it was called on, whatever the insertion order of the keys of its   *)
(* maps, with the same optimal makespan, returns the same text line for    *)
(* line (or raises as it did); and the call changes nothing of the         *)
(* Instance or of the optimal makespan it was given.                       *)
(***************************************************************************)
C17_RenderIsFunction ==
    /\ [](pc = "rendered" =>
            \A inst \in EqualInstances :
                ~ConvertRaises(inst) /\ convert_to_proj(inst, optimal) = lines)
    /\ [](pc = "raised" => \A inst \in EqualInstances : ConvertRaises(inst))
    /\ [][pc = "parsed" => parseVars' = parseVars /\ optimal' = optimal]_vars

\* two jobs rendered from maps of two keys each, with a makespan comment
C17_Witness ==
    /\ pc = "rendered"
    /\ Len(durations) = 2 /\ Len(precedence) = 2
    /\ Len(demands) = 2 /\ Len(demands[1][2]) = 2
    /\ Len(capacities) = 2
    /\ Len(RealJobs(Instance)) = 2
    /\ optimal # None
    /\ Cardinality(EqualInstances) > 1

\* the mapping of the solutions file the run was given, empty if it has none
Table == IF Given /\ solFile.exists THEN SolDict(solFile.text) ELSE <<>>

\* the text of the candidate n as a function of its name, its content and
\* the table, and of nothing else
OwnText(n) ==
    LET stem == Stem(n)
        text == fs[<<argv.input_dir, n>>].text
    IN  convert_to_proj(parse_psplib(stem, text), Optimal(stem, Table, None))

(***************************************************************************)
(* C18: whenever a batch run writes an output file in full, the content    *)
(* it writes is the text determined by the candidate's own name and        *)
(* content and by the solutions table: it is the same whichever other      *)
(* files the directory holds, wherever the candidate comes in the order,   *)
(* and whether the files before it were converted, failed or were skipped. *)
(***************************************************************************)
C18_OutputOfOwnFile ==
    [][InLoop /\ writes' # writes =>
          LET n == LastLine(attempted')
              path == LastLine(writes')
          IN  /\ attempted' = Append(attempted, n)
              /\ writes' = Append(writes, path)
              /\ path = <<argv.output_dir, OutputName(Stem(n))>>
              /\ fs'[path] = ProjFile(OwnText(n))]_vars

\* three candidates: the first converted with a makespan comment, the second
\* failed, the third converted with a makespan comment
C18_Witness ==
    /\ Returned
    /\ Len(attempted) = 3
    /\ warnings = <<attempted[2]>>
    /\ printed = <<2>>
    /\ \A n \in {attempted[1], attempted[3]} :
          OptimalComments(fs[<<argv.output_dir, OutputName(Stem(n))>>].proj) # {}

\* a batch command line with its arguments, whose output path is not a
\* plain file
ValidBatch == argv.batch /\ argv.len >= 4 /\ dirs[argv.output_dir] # "file"

(***************************************************************************)
(* C19: a batch run with valid arguments that has ended has printed the    *)
(* final count and has exit status 0, whatever happened to the files.      *)
(***************************************************************************)
C19_BatchExitsZero ==
    pc = "exit" /\ ValidBatch => status = <<0>> /\ printed = <<converted>>

\* open() refuses the file at path src: it is missing or cannot be read
CannotOpen(src) == src \notin DOMAIN fs \/ fs[src].kind = "unreadable"

(***************************************************************************)
(* C20: in single-file mode an input file that cannot be opened ends the   *)
(* process with the error (OSError, status 1) and leaves every file on     *)
(* disk as it was, none created; in batch mode the same file is caught:    *)
(* its step prints the warning that names it, leaves the disk as it was,   *)
(* stays in the loop and goes on to the next file of the queue, so that    *)
(* at the return every candidate has been attempted.                       *)
(***************************************************************************)
C20_UnreadableFatalOrCaught ==
    /\ [][/\ pc = "main" /\ argv.len >= 2 /\ ~argv.batch
          /\ CannotOpen(<<argv.input_dir, argv.input_file>>)
          => /\ pc' = "exit"
             /\ status' = <<1>>
             /\ exc' = "OSError"
             /\ fs' = fs]_vars
    /\ [][/\ InLoop /\ queue # <<>> /\ IsCandidate(Head(queue))
          /\ CannotOpen(<<argv.input_dir, Head(queue)>>)
          => /\ InLoop'
             /\ exc' = "none"
             /\ warnings' = Append(warnings, Head(queue))
             /\ queue' = Tail(queue)
             /\ converted' = converted
             /\ fs' = fs]_vars
    /\ [](Returned => \A n \in InputNames : IsCandidate(n) => n \in Range(attempted))

\* batch mode: the first candidate could not be opened, the two after it
\* were converted
C20_Witness ==
    /\ Returned
    /\ Len(attempted) = 3
    /\ CannotOpen(<<argv.input_dir, attempted[1]>>)
    /\ warnings = <<attempted[1]>>
    /\ printed = <<2>>

\* single-file mode: the input could not be opened and the process ended
\* with the error
C20_WitnessSingle ==
    /\ pc = "exit"
    /\ ~argv.batch /\ argv.len >= 2
    /\ CannotOpen(<<argv.input_dir, argv.input_file>>)
    /\ status = <<1>>

(***************************************************************************)
(* C24.  Every line of the precedence block that reads job-id, mode-count, *)
(* k, s1..sk stores precedence[job-id] = [s1, ..., sk], in the order of    *)
(* the line, whatever the mode token is and leaving every other key as it  *)
(* was; with k = 0 the list stored is empty; a line of fewer than 3 tokens *)
(* changes nothing.  No such line stops the parse.                         *)
(***************************************************************************)
\* the line reads job-id, mode-count, k and exactly k successor ids
WellFormedPrec(parts) ==
    /\ Len(parts) >= 3
    /\ ~IntRaises(parts[1]) /\ ~IntRaises(parts[3])
    /\ int(parts[3]) = Len(parts) - 3
    /\ \A i \in 4..Len(parts) : ~IntRaises(parts[i])

SuccessorIds(parts) == [i \in 1..(Len(parts) - 3) |-> int(parts[i + 3])]

C24_SuccessorsStored ==
    [][pc = "prec" /\ precText' # precText =>
          LET parts == LastLine(precText')
          IN  /\ Len(parts) < 3 => precedence' = precedence /\ pc' = "prec"
              /\ WellFormedPrec(parts) =>
                    /\ pc' = "prec"
                    /\ DictHas(precedence', int(parts[1]))
                    /\ DictGet(precedence', int(parts[1]), <<>>) =
                          SuccessorIds(parts)
                    /\ \A k \in 1..MaxJob :
                          k # int(parts[1]) =>
                             /\ DictHas(precedence', k) = DictHas(precedence, k)
                             /\ DictGet(precedence', k, <<>>) =
                                   DictGet(precedence, k, <<>>)]_vars

\* a line with a non-numeric mode stored the successors 2, 1 in that order,
\* after a line of fewer than 3 tokens
C24_Witness ==
    /\ Len(precText) = 2
    /\ Len(precText[1]) < 3
    /\ precText[2] = <<IntTok(1), WordTok, IntTok(2), IntTok(2), IntTok(1)>>
    /\ precedence = <<<<1, <<2, 1>>>>>>

(***************************************************************************)
(* C25.  Every line of the requests/durations block that has a third token *)
(* and whose first token is numeric stores durations[job-id] = the third   *)
(* token and demands[job-id] = the positive ones among the first           *)
(* `resources` further tokens, keyed by position; the mode token and the   *)
(* tokens beyond the first `resources` are not read, so the parse goes on  *)
(* whatever they are.  A line whose first token is not numeric stores      *)
(* nothing.                                                                *)
(***************************************************************************)
\* the demands of a line, read positionally against the resource count
PositionalDemands(parts, n) ==
    LET last == Min(Len(parts), 3 + n)
        all == [i \in 1..(last - 3) |-> <<i, int(parts[i + 3])>>]
    IN  SelectSeq(all, LAMBDA e : e[2] > 0)

ReqStored(parts) ==
    /\ pc' = "req"
    /\ DictHas(durations', int(parts[1]))
    /\ DictGet(durations', int(parts[1]), 0) = int(parts[3])
    /\ DictHas(demands', int(parts[1]))
    /\ DictGet(demands', int(parts[1]), <<>>) =
          PositionalDemands(parts, num_resources)

C25_NumericLineStored ==
    [][pc = "req" /\ reqText' # reqText =>
          LET parts == LastLine(reqText')
          IN  /\ Len(parts) >= 3 /\ isdigit(parts[1]) => ReqStored(parts)
              /\ Len(parts) >= 1 /\ ~isdigit(parts[1]) =>
                    /\ pc' = "req"
                    /\ durations' = durations /\ demands' = demands]_vars

(***************************************************************************)
(* C26.  In the rendered text of any Instance, every job named on a        *)
(* depends: line has a task block of its own in the same text.             *)
(***************************************************************************)
TaskIds(out) == {out[i].id : i \in TaskLines(out)}

DependsLines(out) == {k \in 1..Len(out) : out[k].kind = "depends"}

C26_NoDanglingDepends ==
    pc = "rendered" =>
        \A k \in DependsLines(lines) : Range(lines[k].items) \subseteq TaskIds(lines)

\* a depends: line was written for a job that also has a predecessor without
\* a positive duration, which the line leaves out
C26_Witness ==
    /\ pc = "rendered"
    /\ DependsLines(lines) # {}
    /\ \E i \in TaskLines(lines), e \in Range(precedence) :
          /\ lines[i].id \in Range(e[2])
          /\ DictGet(durations, e[1], 0) = 0
          /\ InBlock(lines, i, "depends") # {}

(***************************************************************************)
(* C27.  When the attempt of a candidate fails in parse_psplib or in       *)
(* convert_to_proj, the disk is left as it was: no file is created, and    *)
(* every file of the output directory, those written earlier in the run    *)
(* included, keeps its content.                                            *)
(***************************************************************************)
\* the resource count the text declares
Declared(text) == IF text.header[2] = NoMatch THEN DefaultResources
                  ELSE text.header[2][1]

\* a token that the parser converts is not an integer
BadPrecLine(parts) ==
    /\ Len(parts) >= 3
    /\ \/ ~parts[1].int
       \/ ~parts[3].int
       \/ \E k \in 4..Min(Len(parts), 3 + parts[3].val) : ~parts[k].int

BadReqLine(parts, n) ==
    /\ Len(parts) >= 3 /\ parts[1].digits
    /\ \/ ~parts[1].int
       \/ ~parts[3].int
       \/ \E k \in 4..Min(Len(parts), 3 + n) : ~parts[k].int

\* a job with a positive duration demands a resource whose capacity is 0
ZeroCapacityDemand(text) ==
    LET n == Declared(text)
        read == {i \in 1..Len(text.req) :
                    Len(text.req[i]) >= 3 /\ text.req[i][1].digits}
        final == {i \in read :
                     \A m \in read : m > i => text.req[m][1].val # text.req[i][1].val}
    IN  \E i \in final :
           /\ text.req[i][3].val > 0
           /\ \E k \in 1..Min(n, Len(text.req[i]) - 3) :
                 /\ text.req[i][k + 3].val > 0
                 /\ text.caps # NoMatch
                 /\ k <= Len(text.caps)
                 /\ text.caps[k] = 0

\* reading or parsing the candidate n raises, or rendering its Instance does
FailsBeforeWrite(n) ==
    LET content == fs[<<argv.input_dir, n>>]
    IN  \/ content.kind # "sm"
        \/ \E i \in 1..Len(content.text.prec) : BadPrecLine(content.text.prec[i])
        \/ \E i \in 1..Len(content.text.req) :
              BadReqLine(content.text.req[i], Declared(content.text))
        \/ ZeroCapacityDemand(content.text)

C27_FailureLeavesDisk ==
    [][InLoop /\ attempted' # attempted /\ FailsBeforeWrite(LastLine(attempted'))
          => fs' = fs /\ writes' = writes]_vars

\* a candidate failed after another was written: the output written earlier
\* is on disk, and there is none for the one that failed
C27_Witness ==
    /\ InLoop
    /\ Len(attempted) = 2 /\ Len(writes) = 1
    /\ warnings = <<attempted[2]>>
    /\ FailsBeforeWrite(attempted[2])
    /\ writes[1] \in DOMAIN fs
    /\ <<argv.output_dir, OutputName(Stem(attempted[2]))>> \notin DOMAIN fs

(***************************************************************************)
(* C28.  A batch run writes only files named {stem}.proj in output_dir,    *)
(* one per candidate converted: every write is to the path of the          *)
(* candidate just attempted, no path is written twice in a run, and no     *)
(* file of the input (a file that is not a .proj output) is ever changed,  *)
(* also when output_dir is input_dir.                                      *)
(***************************************************************************)
C28_OnePathPerCandidate ==
    /\ [](InLoop \/ Returned =>
             /\ \A i \in 1..Len(writes) :
                   /\ writes[i][1] = argv.output_dir
                   /\ \E n \in Range(attempted) :
                         writes[i][2] = Stem(n) \o <<".", "p", "r", "o", "j">>
             /\ \A i, k \in 1..Len(writes) : i # k => writes[i] # writes[k])
    /\ [][argv.batch =>
             \A p \in DOMAIN fs : fs[p].kind # "proj" => fs'[p] = fs[p]]_vars

(***************************************************************************)
(* C29.  In single-file mode with no output argument, the file main writes *)
(* is never the file it has parsed: the input file is on disk afterwards   *)
(* as it was before, whatever its name.                                    *)
(***************************************************************************)
C29_InputNotOverwritten ==
    [][pc = "main" /\ ~argv.batch /\ argv.len = 2 =>
          LET src == <<argv.input_dir, argv.input_file>>
          IN  /\ src \in DOMAIN fs => fs'[src] = fs[src]
              /\ writes' # writes => LastLine(writes') # src]_vars


(***************************************************************************)
(* tools/mpp_to_proj/mpp_to_proj.py: UTF8ProjWriter.  A name is a sequence *)
(* of characters; None and the empty string are both <<>>, which the code  *)
(* treats alike (`if not name`).  A line of the writer is the text handed  *)
(* to add_line with its indent.                                            *)
(***************************************************************************)
MaxResources == 3    \* resources of a project

\* str(n) for a natural number
RECURSIVE str(_)
str(n) ==
    IF n < 10 THEN <<Alphabet[Ord("0") + n]>>
    ELSE str(n \div 10) \o <<Alphabet[Ord("0") + (n % 10)]>>

\* the upper-case letters of the names, and their lower case
UpperCase == <<"A", "J", "O", "P", "R">>

LowerCase == <<"a", "j", "o", "p", "r">>

\* str.lower()
lower(s) ==
    [i \in 1..Len(s) |->
        IF \E u \in 1..Len(UpperCase) : UpperCase[u] = s[i]
        THEN LowerCase[CHOOSE u \in 1..Len(UpperCase) : UpperCase[u] = s[i]]
        ELSE s[i]]

\* line 31: re.sub(r'[^a-z0-9_]', '_', s)
SubUnsafe(s) ==
    [i \in 1..Len(s) |->
        IF s[i] \in Range(Alphabet) \ {"."} THEN s[i] ELSE "_"]

\* line 32: re.sub(r'_+', '_', s)
RECURSIVE SubRuns(_)
SubRuns(s) ==
    IF Len(s) < 2 THEN s
    ELSE IF s[1] = "_" /\ s[2] = "_" THEN SubRuns(Tail(s))
    ELSE <<Head(s)>> \o SubRuns(Tail(s))

\* line 32: s.strip('_')
RECURSIVE strip(_)
strip(s) ==
    IF s = <<>> THEN s
    ELSE IF Head(s) = "_" THEN strip(Tail(s))
    ELSE IF s[Len(s)] = "_" THEN strip(SubSeq(s, 1, Len(s) - 1))
    ELSE s

\* lines 30-32: the id before the fallback
SafeId(original_id) == strip(SubRuns(SubUnsafe(lower(original_id))))

ResPrefix == <<"r", "e", "s", "_">>

\* lines 28-35
sanitize_id(original_id, h) ==
    IF SafeId(original_id) = <<>> THEN ResPrefix \o h[original_id]
    ELSE SafeId(original_id)

\* dict.values()
DictValues(d) == {d[i][2] : i \in 1..Len(d)}

\* lines 103-105 with `if` for `while`: one suffix is tried
FreeIdOnce(tj_id, base_id, counter, map) ==
    IF tj_id \in DictValues(map) THEN base_id \o <<"_">> \o str(counter)
    ELSE tj_id

\* lines 103-105: while tj_id in self.resource_map.values()
RECURSIVE FreeId(_, _, _, _)
FreeId(tj_id, base_id, counter, map) ==
    IF tj_id \in DictValues(map)
    THEN FreeId(base_id \o <<"_">> \o str(counter), base_id, counter + 1, map)
    ELSE tj_id

\* add_line, lines 49-50: the text and its indent
WLine(kind, id, name, indent) ==
    [kind |-> kind, id |-> id, name |-> name, indent |-> indent]

add_line(ls, l) == Append(ls, l)

\* lines 97-99: the resource is skipped
Skipped(res) == res.uid = None \/ res.name = <<>>

\* lines 96-109: the loop, on the resources rs, from the writer w
RECURSIVE ResourceLoop(_, _, _)
ResourceLoop(rs, h, w) ==
    IF rs = <<>> THEN w
    ELSE LET res == Head(rs)
             base_id == sanitize_id(res.name, h)
             tj_id == FreeId(base_id, base_id, 1, w.resource_map)
         IN  IF Skipped(res) THEN ResourceLoop(Tail(rs), h, w)
             ELSE ResourceLoop(Tail(rs), h,
                    [resource_map |->
                         DictSet(w.resource_map, res.uid, tj_id),
                     lines |->
                         add_line(add_line(w.lines,
                                     WLine("resource", tj_id, res.name, 0)),
                                  WLine("}", <<>>, <<>>, 0))])

\* lines 95-110
generate_resources(proj, h, w) ==
    LET done == ResourceLoop(proj.resources, h, w)
    IN  [done EXCEPT !.lines = add_line(@, WLine("", <<>>, <<>>, 0))]

\* UTF8ProjWriter.generate_resources()
GenerateResources ==
    /\ pc = "writer"
    /\ LET w == generate_resources(project, hash,
                    [resource_map |-> resource_map, lines |-> self_lines])
       IN  /\ resource_map' = w.resource_map
           /\ self_lines' = w.lines
    /\ pc' = "resources"
    /\ UNCHANGED <<parseVars, lines, exc, loadVars, batchVars, project, hash,
                   jvmVars, benchVars>>

(***************************************************************************)
(* SpecResources: generate_resources on every project of at most           *)
(* MaxResources resources, each with a UniqueID of its own or none, and a  *)
(* name among: none, names that sanitize to a, names that sanitize to a_1, *)
(* names that sanitize to nothing; under every hash of the latter.         *)
(***************************************************************************)
ResourceNames ==
    {<<>>, <<"a">>, <<"A">>, <<"a", "!">>, <<"a", "_", "1">>, <<"!">>, <<"_">>}

HashStrings == {<<"0">>, <<"1">>}

Hashes == [{n \in ResourceNames : n # <<>> /\ SafeId(n) = <<>>} -> HashStrings]

InitResources ==
    /\ pc = "writer"
    /\ ParseIdle
    /\ lines = <<>>
    /\ exc = "none"
    /\ solText = <<>> /\ solutions = <<>>
    /\ BatchIdle
    /\ \E k \in 0..MaxResources :
          \E U \in SUBSET (1..k), ns \in [1..k -> ResourceNames] :
             project =
                [resources |->
                     [i \in 1..k |-> [uid |-> IF i \in U THEN <<i>> ELSE None,
                                      name |-> ns[i]]],
                 tasks |-> <<>>]
    /\ hash \in Hashes
    /\ resource_map = <<>> /\ self_lines = <<>>
    /\ jvm = "off" /\ ret = <<>> /\ calls = <<>>
    /\ scheduled = <<>> /\ results = <<>> /\ report = <<>>

NextResources == GenerateResources

SpecResources == InitResources /\ [][NextResources]_vars


(***************************************************************************)
(* C21.  After generate_resources, the resources with no UniqueID or no    *)
(* name have no block and no entry in resource_map; the other resources    *)
(* have one block each, in order, under pairwise distinct ids; the id of a *)
(* resource is the first of base, base_1, base_2, ... (base its sanitized  *)
(* name) that no earlier block uses.                                       *)
(***************************************************************************)
KeptResources ==
    SelectSeq(project.resources, LAMBDA r : r.uid # None /\ r.name # <<>>)

ResourceBlocksWritten == SelectSeq(self_lines, LAMBDA l : l.kind = "resource")

\* base, base_1, base_2, ...
Candidate(base, k) == IF k = 0 THEN base ELSE base \o <<"_">> \o str(k)

C21_DistinctResourceIds ==
    pc = "resources" =>
        LET kept == KeptResources
            blocks == ResourceBlocksWritten
        IN  /\ Len(blocks) = Len(kept)
            /\ \A i \in 1..Len(kept) :
                  LET base == sanitize_id(kept[i].name, hash)
                      earlier == {blocks[j].id : j \in 1..(i - 1)}
                  IN  /\ blocks[i].name = kept[i].name
                      /\ blocks[i].id \notin earlier
                      /\ \E k \in 0..Len(kept) :
                            /\ blocks[i].id = Candidate(base, k)
                            /\ \A j \in 0..(k - 1) : Candidate(base, j) \in earlier
            /\ \A i, j \in 1..Len(blocks) :
                  i # j => blocks[i].id # blocks[j].id
            /\ resource_map =
                  [i \in 1..Len(kept) |-> <<kept[i].uid, blocks[i].id>>]

\* two resources of one name got the ids a and a_1, and a third resource
\* was skipped
C21_Witness ==
    /\ pc = "resources"
    /\ Len(KeptResources) < Len(project.resources)
    /\ Len(ResourceBlocksWritten) = 2
    /\ ResourceBlocksWritten[1].name = ResourceBlocksWritten[2].name
    /\ ResourceBlocksWritten[1].id = <<"a">>
    /\ ResourceBlocksWritten[2].id = <<"a", "_", "1">>


(***************************************************************************)
(* UTF8ProjWriter.generate_tasks and write_task_recursive.  The tasks of a *)
(* project are numbered 1..n in file order; parent[i] is the task above    *)
(* task i, 0 for a top task, and always an earlier task, so the child      *)
(* tasks of a task are the later tasks that name it, in order.  A task has *)
(* a UniqueID of its own or none, may be a milestone and may carry notes;  *)
(* it has no duration, work, predecessors, assignments or constraint,      *)
(* which add lines at indent + 1 as the milestone and notes do.            *)
(***************************************************************************)
MaxTasks == 3        \* tasks of a project

\* getChildTasks() of task i, of the project for i = 0
ChildTasks(t, i) ==
    SelectSeq([j \in 1..t.n |-> j], LAMBDA j : t.parent[j] = i)

\* lines 37-38
sanitize_task_id(task_id) == <<"task_", task_id[1]>>

RECURSIVE WriteTasks(_, _, _, _)
RECURSIVE write_task_recursive(_, _, _, _)

\* write_task_recursive with the children written at the indent of the task
WriteTaskFlat(t, i, indent, ls) ==
    IF t.uid[i] = None THEN ls
    ELSE LET children == ChildTasks(t, i)
             is_container == children # <<>>
             opened == add_line(ls,
                         WLine("task", sanitize_task_id(t.uid[i]), <<>>, indent))
             leaf == IF ~is_container /\ t.milestone[i]
                     THEN add_line(opened,
                            WLine("milestone", <<>>, <<>>, indent + 1))
                     ELSE opened
             noted == IF t.notes[i]
                      THEN add_line(leaf,
                             WLine("summary", <<>>, <<>>, indent + 1))
                      ELSE leaf
             nested == IF is_container
                       THEN WriteTasks(t, children, indent, noted)
                       ELSE noted
         IN  add_line(nested, WLine("}", <<>>, <<>>, indent))

\* lines 129-222: the lines ls followed by those of task i
write_task_recursive(t, i, indent, ls) ==
    IF t.uid[i] = None THEN ls
    ELSE LET children == ChildTasks(t, i)
             is_container == children # <<>>
             opened == add_line(ls,
                         WLine("task", sanitize_task_id(t.uid[i]), <<>>, indent))
             leaf == IF ~is_container /\ t.milestone[i]
                     THEN add_line(opened,
                            WLine("milestone", <<>>, <<>>, indent + 1))
                     ELSE opened
             noted == IF t.notes[i]
                      THEN add_line(leaf,
                             WLine("summary", <<>>, <<>>, indent + 1))
                      ELSE leaf
             nested == IF is_container
                       THEN WriteTasks(t, children, indent + 1, noted)
                       ELSE noted
         IN  add_line(nested, WLine("}", <<>>, <<>>, indent))

\* lines 117-118 and 218-220: for task in tasks: write_task_recursive
WriteTasks(t, tasks, indent, ls) ==
    IF tasks = <<>> THEN ls
    ELSE WriteTasks(t, Tail(tasks), indent,
                    write_task_recursive(t, Head(tasks), indent, ls))

\* lines 114-116: the tasks under a single top task of ID 0 take its place
TopTasks(t) ==
    LET top_tasks == ChildTasks(t, 0)
    IN  IF Len(top_tasks) = 1 /\ t.id[top_tasks[1]] = 0
        THEN ChildTasks(t, top_tasks[1])
        ELSE top_tasks

\* lines 112-118
generate_tasks(proj, ls) == WriteTasks(proj.tasks, TopTasks(proj.tasks), 0, ls)

\* UTF8ProjWriter.generate_tasks()
GenerateTasks ==
    /\ pc = "writer"
    /\ self_lines' = generate_tasks(project, self_lines)
    /\ pc' = "tasks"
    /\ UNCHANGED <<parseVars, lines, exc, loadVars, batchVars, project, hash,
                   resource_map, jvmVars, benchVars>>

(***************************************************************************)
(* SpecTasks: generate_tasks on every project of at most MaxTasks tasks,   *)
(* in every hierarchy, the first task with ID 0 or 1.                      *)
(***************************************************************************)
\* a hierarchy: the task above each task is an earlier task, or none
Hierarchies(n) == {q \in [1..n -> 0..n] : \A i \in 1..n : q[i] < i}

InitTasks ==
    /\ pc = "writer"
    /\ ParseIdle
    /\ lines = <<>>
    /\ exc = "none"
    /\ solText = <<>> /\ solutions = <<>>
    /\ BatchIdle
    /\ \E n \in 0..MaxTasks :
          \E p \in Hierarchies(n), U \in SUBSET (1..n), id1 \in 0..1,
             M \in SUBSET (1..n), N \in SUBSET (1..n) :
             project =
                [resources |-> <<>>,
                 tasks |->
                     [n |-> n, parent |-> p,
                      uid |-> [i \in 1..n |-> IF i \in U THEN <<i>> ELSE None],
                      id |-> [i \in 1..n |-> IF i = 1 THEN id1 ELSE i],
                      milestone |-> [i \in 1..n |-> i \in M],
                      notes |-> [i \in 1..n |-> i \in N]]]
    /\ hash = <<>>
    /\ resource_map = <<>> /\ self_lines = <<>>
    /\ jvm = "off" /\ ret = <<>> /\ calls = <<>>
    /\ scheduled = <<>> /\ results = <<>> /\ report = <<>>

NextTasks == GenerateTasks

SpecTasks == InitTasks /\ [][NextTasks]_vars


(***************************************************************************)
(* C23.  After generate_tasks the braces of the task lines are balanced;   *)
(* every line stands at the indent of its nesting depth, so a closing line *)
(* stands at the indent of the line it closes; a task is visited when it   *)
(* has a UniqueID and is a top task or the child of a visited task, and    *)
(* exactly the visited tasks have an opening line, one each; the blocks    *)
(* directly inside the block of a task are those of its visited children,  *)
(* in order, and the blocks outside every block are those of the visited   *)
(* top tasks.                                                              *)
(***************************************************************************)
\* the open blocks after line k
Depth(ls, k) ==
    Cardinality({m \in 1..k : ls[m].kind = "task"})
        - Cardinality({m \in 1..k : ls[m].kind = "}"})

\* the line that closes the block opened at line k
Closing(ls, k) ==
    CHOOSE m \in (k + 1)..Len(ls) :
        /\ Depth(ls, m) = Depth(ls, k - 1)
        /\ \A x \in (k + 1)..(m - 1) : Depth(ls, x) > Depth(ls, k - 1)

RECURSIVE Visited(_, _)
Visited(t, i) ==
    /\ t.uid[i] # None
    /\ \/ \E x \in 1..Len(TopTasks(t)) : TopTasks(t)[x] = i
       \/ t.parent[i] # 0 /\ Visited(t, t.parent[i])

\* the ids of the opening lines among lines a..b that stand at indent d
OpenedAt(ls, a, b, d) ==
    LET at == SelectSeq([m \in 1..(b - a + 1) |-> ls[a + m - 1]],
                        LAMBDA l : l.kind = "task" /\ l.indent = d)
    IN  [x \in 1..Len(at) |-> at[x].id]

\* the ids of the tasks of a list that have a UniqueID
IdsOf(t, tasks) ==
    LET kept == SelectSeq(tasks, LAMBDA i : t.uid[i] # None)
    IN  [x \in 1..Len(kept) |-> sanitize_task_id(t.uid[kept[x]])]

C23_BlocksMirrorHierarchy ==
    pc = "tasks" =>
        LET t == project.tasks
            ls == self_lines
        IN  /\ \A k \in 1..Len(ls) : Depth(ls, k) >= 0
            /\ Depth(ls, Len(ls)) = 0
            /\ \A k \in 1..Len(ls) :
                  ls[k].indent = IF ls[k].kind = "}" THEN Depth(ls, k)
                                 ELSE Depth(ls, k - 1)
            /\ \A i \in 1..t.n :
                  Cardinality({k \in 1..Len(ls) :
                                  /\ ls[k].kind = "task"
                                  /\ ls[k].id = <<"task_", i>>})
                      = IF Visited(t, i) THEN 1 ELSE 0
            /\ OpenedAt(ls, 1, Len(ls), 0) = IdsOf(t, TopTasks(t))
            /\ \A i \in 1..t.n, k \in 1..Len(ls) :
                  ls[k].kind = "task" /\ ls[k].id = <<"task_", i>> =>
                      /\ ls[Closing(ls, k)].kind = "}"
                      /\ ls[Closing(ls, k)].indent = ls[k].indent
                      /\ OpenedAt(ls, k + 1, Closing(ls, k) - 1,
                                  ls[k].indent + 1)
                            = IdsOf(t, ChildTasks(t, i))

\* a task with two children, one of them without a UniqueID, was written:
\* its block holds one block, at indent 1, between its own lines at indent 0
C23_Witness ==
    /\ pc = "tasks"
    /\ project.tasks.n = 3
    /\ ChildTasks(project.tasks, 1) = <<2, 3>>
    /\ project.tasks.uid[2] = None
    /\ Len(self_lines) >= 4
    /\ self_lines[1].kind = "task" /\ self_lines[1].indent = 0
    /\ OpenedAt(self_lines, 1, Len(self_lines), 1) = <<<<"task_", 3>>>>
    /\ self_lines[Len(self_lines)].kind = "}"


(***************************************************************************)
(* convert_project, lines 234-259.  The calls into jpype and MPXJ are the  *)
(* environment: each returns or raises.  One step per call; the step of a  *)
(* call that raises inside the try statement runs the except and finally   *)
(* clauses as well, and the step of the write that returns runs the        *)
(* finally clause.                                                         *)
(***************************************************************************)

\* Path(name).suffix, for a name without directories
Suffix(name) ==
    LET dots == {i \in 1..Len(name) : name[i] = "."}
        last == CHOOSE i \in dots : \A k \in dots : k <= i
    IN  IF dots = {} \/ last = 1 \/ last = Len(name) THEN <<>>
        ELSE SubSeq(name, last, Len(name))

ProjExt == <<".", "p", "r", "o", "j">>

\* line 245: Path(output_file).suffix.lower()
Ext(output_file) == lower(Suffix(output_file))

\* lines 248-251: the writer the extension selects
WriterOf(output_file) ==
    IF Ext(output_file) = ProjExt THEN "UTF8ProjWriter.write"
    ELSE "MSPDIWriter.write"

\* a call that returned, a call that raised
CallReturned(f) == [call |-> f, raised |-> FALSE]

CallRaised(f) == [call |-> f, raised |-> TRUE]

\* lines 257-258: the finally clause
Finally == jvm' = IF jvm = "on" THEN "shut" ELSE jvm

\* lines 252-256: the except clause, then the finally clause
Except(f) ==
    /\ calls' = Append(calls, CallRaised(f))
    /\ ret' = <<FALSE>>
    /\ pc' = "returned"
    /\ Finally

\* lines 235-237: the JVM is started unless it runs; startJVM is called
\* before the try statement, so what it raises leaves the function
StartJVM ==
    /\ pc = "convert"
    /\ IF jvm = "on"
       THEN pc' = "get_reader" /\ UNCHANGED <<jvm, calls, exc>>
       ELSE \/ /\ jvm' = "on"
               /\ calls' = Append(calls, CallReturned("startJVM"))
               /\ pc' = "get_reader"
               /\ UNCHANGED exc
            \/ /\ calls' = Append(calls, CallRaised("startJVM"))
               /\ Raise("JVMNotFoundException")
               /\ UNCHANGED jvm
    /\ UNCHANGED <<parseVars, lines, loadVars, batchVars, writerVars, ret,
                   benchVars>>

\* line 242: reader = get_reader()
GetReader ==
    /\ pc = "get_reader"
    /\ \/ /\ calls' = Append(calls, CallReturned("get_reader"))
          /\ pc' = "read"
          /\ UNCHANGED <<jvm, ret>>
       \/ Except("get_reader")
    /\ UNCHANGED <<parseVars, lines, exc, loadVars, batchVars, writerVars,
                   benchVars>>

\* line 243: project = reader.read(input_file)
ReadProject ==
    /\ pc = "read"
    /\ \/ /\ calls' = Append(calls, CallReturned("read"))
          /\ pc' = "write"
          /\ UNCHANGED <<jvm, ret>>
       \/ Except("read")
    /\ UNCHANGED <<parseVars, lines, exc, loadVars, batchVars, writerVars,
                   benchVars>>

\* lines 245-253: the write by the writer of the extension, return True
WriteProject ==
    /\ pc = "write"
    /\ \/ /\ calls' = Append(calls, CallReturned(WriterOf(argv.output_file)))
          /\ ret' = <<TRUE>>
          /\ pc' = "returned"
          /\ Finally
       \/ Except(WriterOf(argv.output_file))
    /\ UNCHANGED <<parseVars, lines, exc, loadVars, batchVars, writerVars,
                   benchVars>>

(***************************************************************************)
(* SpecConvert: convert_project on output names with the extensions .proj, *)
(* .PROJ, .xml, .mpp and none, with the JVM running or not at the call.    *)
(***************************************************************************)
OutputStems == {<<"o">>, <<"o", ".", "a">>, <<>>}

OutputExts ==
    {ProjExt, <<".", "P", "R", "O", "J">>, <<".", "x", "m", "l">>,
     <<".", "m", "p", "p">>, <<>>}

OutputPaths == {s \o e : s \in OutputStems, e \in OutputExts} \ {<<>>}

InitConvert ==
    /\ pc = "convert"
    /\ ParseIdle
    /\ lines = <<>>
    /\ exc = "none"
    /\ solText = <<>> /\ solutions = <<>>
    /\ argv \in {Args(3, FALSE, "out", None, <<"i", ".", "m", "p", "p">>, o) :
                    o \in OutputPaths}
    /\ solFile = NoSolFile
    /\ fs = <<>>
    /\ dirs = [d \in {"in", "out"} |-> "absent"]
    /\ queue = <<>>
    /\ converted = 0
    /\ optimal = None
    /\ attempted = <<>> /\ writes = <<>> /\ warnings = <<>>
    /\ loads = 0
    /\ status = <<>>
    /\ printed = <<>>
    /\ project = [resources |-> <<>>, tasks |-> <<>>]
    /\ hash = <<>>
    /\ resource_map = <<>> /\ self_lines = <<>>
    /\ jvm \in {"off", "on"}
    /\ ret = <<>> /\ calls = <<>>
    /\ scheduled = <<>> /\ results = <<>> /\ report = <<>>

NextConvert ==
    \/ StartJVM
    \/ GetReader
    \/ ReadProject
    \/ WriteProject

SpecConvert == InitConvert /\ [][NextConvert]_vars


(***************************************************************************)
(* C22.  convert_project never raises to its caller: once a call has       *)
(* raised it has returned False; it returns True exactly when read and the *)
(* write have both returned; the writer is UTF8ProjWriter when the         *)
(* extension of the output file is .proj and the MSPDI writer otherwise;   *)
(* when it has returned, a JVM that was started has been shut down.        *)
(***************************************************************************)
CallsReturned(f) == \E i \in 1..Len(calls) : calls[i] = CallReturned(f)

SomeCallRaised == \E i \in 1..Len(calls) : calls[i].raised

WriterCalled(f) == \E i \in 1..Len(calls) : calls[i].call = f

C22_ConvertProject ==
    /\ exc = "none"
    /\ SomeCallRaised => pc = "returned" /\ ret = <<FALSE>>
    /\ pc = "returned" =>
          /\ ret \in {<<TRUE>>, <<FALSE>>}
          /\ ret = <<TRUE>> <=>
                /\ CallsReturned("read")
                /\ \/ CallsReturned("UTF8ProjWriter.write")
                   \/ CallsReturned("MSPDIWriter.write")
          /\ jvm # "on"
    /\ WriterCalled("UTF8ProjWriter.write") =>
          Suffix(argv.output_file) = ProjExt
    /\ WriterCalled("MSPDIWriter.write") =>
          Suffix(argv.output_file) # ProjExt


(***************************************************************************)
(* tools/benchmarks/benchmark_runner.py: run_benchmark, lines 182-287.     *)
(* The scheduler is the environment: schedule_instance returns an error    *)
(* (a timeout, or what a failed run printed, which may be empty) with no   *)
(* makespan, or no error with the makespan found in the output, if any.    *)
(* Makespans are whole days here and the gap is kept as the exact fraction *)
(* 100 * (makespan - optimal) / optimal.                                   *)
(***************************************************************************)
MaxInstances == 2    \* .proj files of the directory
MaxSpan == 2         \* makespans and optima are at most MaxSpan days

DefaultGapThreshold == 5

\* lines 153-159 and 179: what schedule_instance returns
Scheduled(makespan, error) == [makespan |-> makespan, error |-> error]

ScheduleOutcomes ==
    {Scheduled(None, <<"timeout">>), Scheduled(None, <<"">>),
     Scheduled(None, None)}
    \cup {Scheduled(<<m>>, None) : m \in 0..MaxSpan}

\* optima.get(name)
Optima == {None} \cup {<<o>> : o \in 0..MaxSpan}

\* `if error`: the error is neither None nor the empty string
ErrorTruthy(error) == error # None /\ error # <<"">>

\* line 224 raises
GapRaises(s, opt) ==
    ~ErrorTruthy(s.error) /\ s.makespan # None /\ opt = <<0>>

\* line 224, for optimal # 0
Gap(makespan, opt) == [num |-> (makespan - opt) * 100, den |-> opt]

Abs(n) == IF n < 0 THEN 0 - n ELSE n

\* line 225: abs(gap) < 0.01
GapIsZero(gap) == Abs(gap.num) * 100 < Abs(gap.den)

\* line 227: gap <= gap_threshold
GapWithin(gap, threshold) ==
    IF gap.den > 0 THEN gap.num <= threshold * gap.den
    ELSE gap.num >= threshold * gap.den

\* lines 220-236 with `error` for `ok` at line 233
StatusNoReference(s, opt, threshold) ==
    IF ErrorTruthy(s.error) THEN "error"
    ELSE IF s.makespan # None /\ opt # None
    THEN LET gap == Gap(s.makespan[1], opt[1])
         IN  IF GapIsZero(gap) THEN "optimal"
             ELSE IF GapWithin(gap, threshold) THEN "acceptable"
             ELSE "suboptimal"
    ELSE "error"

\* lines 220-236: the status
StatusOf(s, opt, threshold) ==
    IF ErrorTruthy(s.error) THEN "error"
    ELSE IF s.makespan # None /\ opt # None
    THEN LET gap == Gap(s.makespan[1], opt[1])
         IN  IF GapIsZero(gap) THEN "optimal"
             ELSE IF GapWithin(gap, threshold) THEN "acceptable"
             ELSE "suboptimal"
    ELSE IF s.makespan # None THEN "ok"
    ELSE "error"

\* lines 220-237: the gap and the error message
GapOf(s, opt) ==
    IF ~ErrorTruthy(s.error) /\ s.makespan # None /\ opt # None
    THEN <<Gap(s.makespan[1], opt[1])>>
    ELSE None

ErrorOf(s) ==
    IF ErrorTruthy(s.error) \/ s.makespan # None THEN s.error
    ELSE <<"no makespan in output">>

\* lines 239-248
InstanceResult(s, opt, threshold) ==
    [makespan_days |-> s.makespan, optimal_makespan |-> opt,
     gap_percent |-> GapOf(s, opt), status |-> StatusOf(s, opt, threshold),
     error_message |-> ErrorOf(s)]

\* len([r for r in results if r.status == status])
CountStatus(rs, st) == Len(SelectSeq(rs, LAMBDA r : r.status = st))

\* lines 258-287
BenchmarkReport(rs) ==
    [total_instances |-> Len(rs),
     successful |-> Len(SelectSeq(rs, LAMBDA r : r.status # "error")),
     errors |-> Len(SelectSeq(rs, LAMBDA r : r.status = "error")),
     optimal_count |-> CountStatus(rs, "optimal"),
     acceptable_count |-> CountStatus(rs, "acceptable"),
     suboptimal_count |-> CountStatus(rs, "suboptimal"),
     no_reference_count |-> CountStatus(rs, "ok"),
     results |-> rs]

\* lines 193-196: no .proj file in the directory
NoProjFiles ==
    /\ pc = "bench"
    /\ results = <<>> /\ scheduled = <<>>
    /\ pc' = "exit"
    /\ status' = <<1>>
    /\ UNCHANGED <<parseVars, lines, exc, loadVars, argv, solFile, fs, dirs,
                   queue, converted, optimal, attempted, writes, warnings,
                   loads, printed, writerVars, jvmVars, benchVars>>

\* lines 211-216: the next file is scheduled
ScheduleInstance(S, maxInstances) ==
    /\ pc = "bench"
    /\ scheduled = <<>>
    /\ Len(results) < maxInstances
    /\ \E s \in S : scheduled' = <<s>>
    /\ UNCHANGED <<pc, parseVars, lines, exc, loadVars, batchVars, writerVars,
                   jvmVars, results, report>>

\* lines 218-249: its result is classified and appended
Classify(O) ==
    /\ pc = "bench"
    /\ scheduled # <<>>
    /\ \E opt \in O :
          IF GapRaises(scheduled[1], opt)
          THEN Raise("ZeroDivisionError") /\ UNCHANGED results
          ELSE /\ results' = Append(results,
                      InstanceResult(scheduled[1], opt, DefaultGapThreshold))
               /\ UNCHANGED <<pc, exc>>
    /\ scheduled' = <<>>
    /\ UNCHANGED <<parseVars, lines, loadVars, batchVars, writerVars, jvmVars,
                   report>>

\* lines 255-287: the loop has ended
Summarize ==
    /\ pc = "bench"
    /\ scheduled = <<>>
    /\ results # <<>>
    /\ report' = <<BenchmarkReport(results)>>
    /\ pc' = "reported"
    /\ UNCHANGED <<parseVars, lines, exc, loadVars, batchVars, writerVars,
                   jvmVars, scheduled, results>>

(***************************************************************************)
(* SpecBench: run_benchmark on every directory of at most MaxInstances     *)
(* files, under every outcome of the scheduler and every optimum.          *)
(***************************************************************************)
InitBench ==
    /\ pc = "bench"
    /\ ParseIdle
    /\ lines = <<>>
    /\ exc = "none"
    /\ solText = <<>> /\ solutions = <<>>
    /\ BatchIdle
    /\ ToolIdle

NextBench ==
    \/ NoProjFiles
    \/ ScheduleInstance(ScheduleOutcomes, MaxInstances)
    \/ Classify(Optima)
    \/ Summarize

SpecBench == InitBench /\ [][NextBench]_vars


(***************************************************************************)
(* C30.  In the report of run_benchmark every result has one of the five   *)
(* statuses; total_instances = successful + errors; successful is the sum  *)
(* of optimal_count, acceptable_count, suboptimal_count and                *)
(* no_reference_count, each the number of results of its status; and the   *)
(* result appended for an instance has status error iff schedule_instance  *)
(* returned an error or no makespan for it.                                *)
(***************************************************************************)
Statuses == {"error", "optimal", "acceptable", "suboptimal", "ok"}

WithStatus(rs, st) == Cardinality({i \in 1..Len(rs) : rs[i].status = st})

C30_StatusesPartition ==
    /\ [](report # <<>> =>
            LET b == report[1]
            IN  /\ b.results = results
                /\ \A i \in 1..Len(b.results) :
                      b.results[i].status \in Statuses
                /\ b.total_instances = Len(b.results)
                /\ b.total_instances = b.successful + b.errors
                /\ b.successful = b.optimal_count + b.acceptable_count
                                    + b.suboptimal_count + b.no_reference_count
                /\ b.errors = WithStatus(b.results, "error")
                /\ b.optimal_count = WithStatus(b.results, "optimal")
                /\ b.acceptable_count = WithStatus(b.results, "acceptable")
                /\ b.suboptimal_count = WithStatus(b.results, "suboptimal")
                /\ b.no_reference_count = WithStatus(b.results, "ok"))
    /\ [][results' # results =>
            /\ results' = Append(results, LastLine(results'))
            /\ LastLine(results').status = "error"
                  <=> \/ scheduled[1].error # None
                      \/ scheduled[1].makespan = None]_vars

\* a report of two instances, one with an error and one acceptable
C30_Witness ==
    /\ report # <<>>
    /\ report[1].total_instances = 2
    /\ report[1].errors = 1
    /\ report[1].acceptable_count = 1

====
